---- MODULE Spec2Model ----
(***************************************************************************)
(* Event-ingestion and enrichment pipeline of the ordinals indexer:        *)
(* EventConsumer and BlockConsumer (src/src/indexer), the database client  *)
(* (src/src/ord_db_client.rs), the enrichment workflow                      *)
(* (src/src/indexer/inscription_indexation.rs) and the Publisher            *)
(* (src/src/indexer/event_publisher.rs, src/src/indexer/rmq_con.rs).        *)
(***************************************************************************)
EXTENDS Integers, Sequences, FiniteSets, TLC

(***************************************************************************)
(* Bounds of the model.                                                    *)
(***************************************************************************)
\* Messages external producers put on the two queues during a run.
MaxMsgs == 3
\* The broker's redelivery counter of one message saturates here (above
\* the consumer's threshold, so that a requeue beyond it stays visible).
RedeliverCap == 4

(***************************************************************************)
(* Program constants.                                                      *)
(***************************************************************************)
\* block_consumer.rs:140, `if delivery_count >= 3`.
MaxDelivery == 3

(***************************************************************************)
(* Values.  Option<T> is a sequence of length at most one.                 *)
(***************************************************************************)
None == <<>>

Some(x) == <<x>>

\* SatPoint = (outpoint(txid, vout), offset).
SatPoint(t, v, o) == [txid |-> t, vout |-> v, offset |-> o]

\* SatPoint::to_string, "<txid>:<vout>:<offset>".
SatPointToString(sp) == <<sp.txid, sp.vout, sp.offset>>

\* SatPoint::from_str(..).ok() of Event::from_row.
SatPointFromStr(s) ==
  IF Len(s) = 3 THEN Some(SatPoint(s[1], s[2], s[3])) ELSE None

\* The sat points events of the run speak of: two outputs of transaction
\* "t1" and one of "t2".
SatPoints == {SatPoint("t1", 0, 0), SatPoint("t2", 0, 0)}

Heights == {1}

\* Event payloads as they travel on the wire (JSON, one event per message).
\* A payload that is no Event is the tag "garbage".
CreatedEvents ==
  [tag : {"InscriptionCreated"}, block_height : Heights,
   inscription_id : {"i1"}, location : {None, Some(SatPoint("t1", 0, 0))}]

TransferredEvents ==
  [tag : {"InscriptionTransferred"}, block_height : Heights,
   inscription_id : {"i1"}, new_location : {SatPoint("t2", 0, 0)},
   old_location : {SatPoint("t1", 0, 0)}]

BlockEvents == [tag : {"BlockCommitted"}, height : Heights]

RuneEvents == [tag : {"RuneMinted"}]

Garbage == [tag |-> "garbage"]

EventVariants ==
  {"InscriptionCreated", "InscriptionTransferred", "RuneBurned", "RuneEtched",
   "RuneMinted", "RuneTransferred", "BlockCommitted"}

\* serde_json::from_slice::<Event>(&delivery.data).
Deserialize(data) ==
  IF data.tag \in EventVariants
    THEN [ok |-> TRUE, event |-> data]
    ELSE [ok |-> FALSE, event |-> Garbage]

\* The x-delivery-count header of a message: absent, or an AMQP value of
\* some type.
Absent == [kind |-> "absent", n |-> 0]

Headers ==
  {Absent, [kind |-> "LongLongInt", n |-> MaxDelivery]}

Queues == {"blocks", "inscriptions"}

\* What a producer may put on each queue.
Payloads(q) ==
  IF q = "inscriptions"
    THEN CreatedEvents \cup TransferredEvents \cup RuneEvents \cup {Garbage}
    ELSE BlockEvents \cup RuneEvents \cup {Garbage}

\* The x-delivery-count a producer sets.  EventConsumer reads no header,
\* so on its queue only the poison message is tried with each of them.
ProducerHeaders(q, data) ==
  IF q = "blocks" \/ data = Garbage THEN Headers ELSE {Absent}

(***************************************************************************)
(* State.                                                                  *)
(***************************************************************************)
VARIABLES
  nativeCount,  \* the broker stamps x-delivery-count on a redelivery
  queue,        \* per queue: the messages it ever held, and the ready ones
  ec,           \* the EventConsumer task
  bc,           \* the BlockConsumer task
  events,       \* relation event, in insertion (id) order
  inscription,  \* relation inscription, in insertion (surrogate id) order
  location,     \* relation location, in insertion order
  pub,          \* the Publisher task
  rx,           \* the Publisher's bounded channel of events, and its senders
  dequeued,     \* the events the Publisher received, in order
  confirmed,    \* the events the broker acked to the Publisher, in order
  shutdown,     \* shutdown_process() was called
  proc,         \* per consumer process: its run function and its signal
  lc,           \* the process of the earlier EventConsumer (two consumers)
  callers,      \* concurrent callers of save_inscription on one database
  apiCall,      \* one operation of the ApiClient (execute_with_retries)
  chan          \* per component: the channel it was handed, and its traffic

clientVars == <<callers, apiCall, chan>>

consumerVars ==
  <<nativeCount, queue, ec, bc, events, inscription, location, proc, lc,
    clientVars>>

pubVars == <<pub, rx, dequeued, confirmed, shutdown>>

dbVars == <<events, inscription, location>>

(***************************************************************************)
(* The consumer processes: `run` of EventConsumer and of BlockConsumer,    *)
(* each its own process with its own database pool.                        *)
(***************************************************************************)
Processes == {"ec", "bc"}

\* run after tokio::spawn of consume_queue: waiting for SIGTERM, the pool
\* open, the process alive (exit = -1).  `during` is the delivery the
\* consumer was handling when the signal was sent (0: none).
ProcStart ==
  [sup |-> "wait", signal |-> FALSE, during |-> 0, pool_open |-> TRUE,
   exit |-> -1, close_code |-> 0]

\* The process has not exited.
Running(p) == proc[p].exit = -1

\* A panic on a spawned thread or task ends that thread or task; the
\* process ends with it only in a build whose panic strategy is abort.
PanicStrategies == {"unwind", "abort"}

\* The exit code of a process that aborts (SIGABRT).
AbortCode == 134

\* The queue the consumer of process p reads.
QueueOf(p) == IF p = "ec" THEN "inscriptions" ELSE "blocks"

\* Mutant of awaits_next: a delivery is taken while one is being handled.
awaits_next_Concurrent(pc) == pc \in {"next", "handle"}

\* consume_queue: the loop is at `consumer.next().await`.
awaits_next(pc) == pc = "next"

\* A database call can succeed only while the pool is open.
DbOutcomes(p) == IF proc[p].pool_open THEN BOOLEAN ELSE {FALSE}

(***************************************************************************)
(* The broker (an external system), as far as the consumers see it.        *)
(***************************************************************************)
Min(a, b) == IF a < b THEN a ELSE b

\* The x-delivery-count header a delivery of message m carries: the
\* producer's own, unless the queue counts redeliveries itself.
DeliveredHeader(m) ==
  IF nativeCount /\ m.redelivered > 0
    THEN [kind |-> "LongLongInt", n |-> m.redelivered]
    ELSE m.hdr

\* A producer publishes a message that is routed to queue q.
BrokerEnqueue(q) ==
  /\ Len(queue["blocks"].msgs) + Len(queue["inscriptions"].msgs) < MaxMsgs
  /\ \E data \in Payloads(q) : \E hdr \in ProducerHeaders(q, data) :
       queue' = [queue EXCEPT
         ![q].msgs = Append(@, [data |-> data, hdr |-> hdr, redelivered |-> 0,
                                state |-> "ready", answers |-> 0]),
         ![q].ready = Append(@, Len(queue[q].msgs) + 1)]
  /\ UNCHANGED <<nativeCount, ec, bc, dbVars, pubVars, proc, lc, clientVars>>

\* consumer.next(): the head of the ready messages becomes an
\* unacknowledged delivery.
Deliver(qs, q) ==
  [qs EXCEPT ![q].ready = Tail(@),
             ![q].msgs[Head(qs[q].ready)].state = "unacked",
             ![q].msgs[Head(qs[q].ready)].answers = 0]

\* basic.ack of delivery mid.
BrokerAck(qs, q, mid) ==
  [qs EXCEPT ![q].msgs[mid].state = "acked", ![q].msgs[mid].answers = @ + 1]

\* basic.reject / basic.nack of delivery mid: with requeue the message goes
\* back to the head of the queue as a redelivery, without it is dropped.
BrokerReject(qs, q, mid, requeue) ==
  IF requeue
    THEN [qs EXCEPT
           ![q].msgs[mid].state = "ready",
           ![q].msgs[mid].redelivered = Min(@ + 1, RedeliverCap),
           ![q].msgs[mid].answers = @ + 1,
           ![q].ready = <<mid>> \o @]
    ELSE [qs EXCEPT ![q].msgs[mid].state = "rejected",
                    ![q].msgs[mid].answers = @ + 1]

\* The dropped delivery is acked.
DropDelivery_Acks(qs, q, mid) == BrokerAck(qs, q, mid)

\* Mutant of DropDelivery: the dropped delivery is rejected.
DropDelivery_Rejects(qs, q, mid) == BrokerReject(qs, q, mid, FALSE)

\* A Delivery that is dropped (with the future of handle_delivery) sends
\* nothing to the broker.
DropDelivery(qs, q, mid) == qs

(***************************************************************************)
(* DbClient: relation event.                                               *)
(***************************************************************************)
\* SQL `a = b` in a WHERE clause: true only for two equal non-null values.
SqlEq(a, b) == a # None /\ b # None /\ a = b

EventRow(t, h, id, loc, old) ==
  [type_id |-> t, block_height |-> h, inscription_id |-> id,
   location |-> loc, old_location |-> old]

\* INSERT INTO events .. SELECT $1,$2,$3,$4 WHERE NOT EXISTS (.. location = $4).
save_inscription_created(rows, h, id, loc) ==
  LET l == IF loc = None THEN None ELSE Some(SatPointToString(loc[1]))
  IN IF \E i \in 1..Len(rows) :
          /\ rows[i].type_id = 1
          /\ rows[i].block_height = h
          /\ rows[i].inscription_id = id
          /\ SqlEq(rows[i].location, l)
       THEN rows
       ELSE Append(rows, EventRow(1, h, id, l, None))

\* A transfer stored by moving the inscription's latest event row.
save_inscription_transferred_Moves(rows, h, id, new, old) ==
  LET l == Some(SatPointToString(new))
      o == Some(SatPointToString(old))
      mine == {i \in 1..Len(rows) : rows[i].inscription_id = id}
      last == CHOOSE i \in mine : \A j \in mine : j <= i
  IN IF mine = {} THEN Append(rows, EventRow(2, h, id, l, o))
     ELSE [rows EXCEPT ![last] = EventRow(2, h, id, l, o)]

\* INSERT INTO events .. WHERE NOT EXISTS (.. location = $4 AND old_location = $5).
save_inscription_transferred(rows, h, id, new, old) ==
  LET l == Some(SatPointToString(new))
      o == Some(SatPointToString(old))
  IN IF \E i \in 1..Len(rows) :
          /\ rows[i].type_id = 2
          /\ rows[i].block_height = h
          /\ rows[i].inscription_id = id
          /\ SqlEq(rows[i].location, l)
          /\ SqlEq(rows[i].old_location, o)
       THEN rows
       ELSE Append(rows, EventRow(2, h, id, l, o))

(***************************************************************************)
(* EventConsumer (src/src/indexer/event_consumer.rs).                      *)
(***************************************************************************)
\* process_event: the rows of relation event after a successful call.
EC_process_event(event, rows) ==
  CASE event.tag = "InscriptionCreated" ->
         save_inscription_created(rows, event.block_height,
                                  event.inscription_id, event.location)
    [] event.tag = "InscriptionTransferred" ->
         save_inscription_transferred(rows, event.block_height,
                                      event.inscription_id,
                                      event.new_location, event.old_location)
    [] OTHER -> rows

\* process_event with a database call in its catch-all arm.
EC_handles_Every(event) == TRUE

\* Does process_event touch the database for this event?
EC_handles(event) ==
  event.tag \in {"InscriptionCreated", "InscriptionTransferred"}

\* consume_queue: `consumer.next().await`.
EC_Next ==
  /\ Running("ec")
  /\ awaits_next(ec.pc)
  /\ queue["inscriptions"].ready # <<>>
  /\ ec' = [ec EXCEPT !.pc = "handle", !.mid = Head(queue["inscriptions"].ready),
                      !.result = "none"]
  /\ queue' = Deliver(queue, "inscriptions")
  /\ UNCHANGED <<nativeCount, bc, dbVars, pubVars, proc, lc, clientVars>>

\* handle_delivery up to its acknowledgement: deserialize, process_event.
\* The database call may fail.
EC_Handle ==
  /\ Running("ec")
  /\ ec.pc = "handle"
  /\ LET d == Deserialize(queue["inscriptions"].msgs[ec.mid].data)
     IN IF ~d.ok
          THEN /\ ec' = [ec EXCEPT !.pc = "respond", !.result = "poison"]
               /\ UNCHANGED events
          ELSE IF ~EC_handles(d.event)
            THEN /\ ec' = [ec EXCEPT !.pc = "respond", !.result = "ok"]
                 /\ UNCHANGED events
            ELSE \E dbOk \in DbOutcomes("ec") :
                   IF dbOk
                     THEN /\ events' = EC_process_event(d.event, events)
                          /\ ec' = [ec EXCEPT !.pc = "respond", !.result = "ok"]
                     ELSE /\ UNCHANGED events
                          /\ ec' = [ec EXCEPT !.pc = "respond", !.result = "err"]
  /\ UNCHANGED <<nativeCount, queue, bc, inscription, location, pubVars, proc, lc, clientVars>>

\* Mutant of EC_response: the delivery is acked whatever process_event
\* returned.
EC_response_AlwaysAck(result) == "ack"

\* The acknowledgement handle_delivery sends for a result of process_event.
EC_response(result) == IF result = "ok" THEN "ack" ELSE "reject"

\* handle_delivery: delivery.ack / delivery.reject { requeue: false }.
EC_Respond ==
  /\ Running("ec")
  /\ ec.pc = "respond"
  /\ queue' = IF EC_response(ec.result) = "ack"
                THEN BrokerAck(queue, "inscriptions", ec.mid)
                ELSE BrokerReject(queue, "inscriptions", ec.mid, FALSE)
  /\ ec' = [ec EXCEPT !.pc = "next"]
  /\ UNCHANGED <<nativeCount, bc, dbVars, pubVars, proc, lc, clientVars>>

\* The positions of consume_queue at which handle_delivery is in progress
\* inside select!.
EC_Handling == {"handle", "respond"}

\* select!: the shutdown branch.  The handler's future is dropped and the
\* delivery in hand gets no answer.
EC_Shutdown ==
  /\ Running("ec")
  /\ ec.pc \in EC_Handling
  /\ proc["ec"].signal
  /\ ec' = [ec EXCEPT !.pc = "closing"]
  /\ queue' = DropDelivery(queue, "inscriptions", ec.mid)
  /\ UNCHANGED <<nativeCount, bc, dbVars, pubVars, proc, lc, clientVars>>

\* run: the spawned task ends with `.expect(..)` on consume_queue's result,
\* a panic of that task: the exit code of the process afterwards (-1: it
\* goes on running).
EC_exit_on_error(strategy) == IF strategy = "abort" THEN AbortCode ELSE -1

\* consume_queue returns Err: the delivery stream yielded an error
\* (`result?`) or the ack / reject failed (`process_result?`).
EC_BrokerError ==
  /\ Running("ec")
  /\ ec.pc \in {"next", "respond"}
  /\ \E strategy \in PanicStrategies :
       proc' = [proc EXCEPT !["ec"].exit = EC_exit_on_error(strategy)]
  /\ ec' = [ec EXCEPT !.pc = "failed",
                      !.fail = IF ec.pc = "next" THEN "stream" ELSE "respond"]
  /\ UNCHANGED <<nativeCount, queue, bc, dbVars, pubVars, lc, clientVars>>

\* consume_queue after the loop: channel.close(200, ..).await?, Ok(()).
EC_Close ==
  /\ Running("ec")
  /\ ec.pc = "closing"
  /\ \E ok \in BOOLEAN, strategy \in PanicStrategies :
       /\ ok => strategy = "unwind"
       /\ ec' = IF ok THEN [ec EXCEPT !.pc = "done"]
                ELSE [ec EXCEPT !.pc = "failed", !.fail = "close"]
       /\ proc' = [proc EXCEPT
            !["ec"].close_code = 200,
            !["ec"].exit = IF ok THEN @ ELSE EC_exit_on_error(strategy)]
  /\ UNCHANGED <<nativeCount, queue, bc, dbVars, pubVars, lc, clientVars>>

(***************************************************************************)
(* The HTTP API (an external system): what it answers when it answers.     *)
(***************************************************************************)
\* GET /r/blockinfo/{height}: the block's timestamp.
BlockTime(h) == 1000 + h

\* GET /tx/{txid}: the outputs of the transaction.  An output whose script
\* is non-standard has no address.
TxOutputs(txid) ==
  IF txid = "t1"
    THEN <<[address |-> Some("addr1"), value |-> 10]>>
    ELSE <<[address |-> None, value |-> 20]>>

\* GET /inscription/{id}/details: the API knows an inscription fully or only
\* in part (the nullable fields absent).
DetailVariants == {"full", "partial"}

InscriptionDetails(id, dv) ==
  [id |-> id,
   content_type |-> IF dv = "full" THEN Some("text/plain") ELSE None,
   content_length |-> IF dv = "full" THEN Some(4) ELSE None]

(***************************************************************************)
(* DbClient: relations inscription and location.                           *)
(***************************************************************************)
\* Event::from_row.
from_row(row) ==
  [type_id |-> row.type_id, block_height |-> row.block_height,
   inscription_id |-> row.inscription_id,
   location |-> IF row.location = None THEN None
                ELSE SatPointFromStr(row.location[1]),
   old_location |-> IF row.old_location = None THEN None
                    ELSE SatPointFromStr(row.old_location[1])]

\* Rows i..Len(rows) of height h and type t, as events, in id order.
RECURSIVE EventsOfType(_, _, _, _)
EventsOfType(rows, h, t, i) ==
  IF i > Len(rows) THEN <<>>
  ELSE IF rows[i].block_height = h /\ rows[i].type_id = t
    THEN <<from_row(rows[i])>> \o EventsOfType(rows, h, t, i + 1)
    ELSE EventsOfType(rows, h, t, i + 1)

\* The query with ORDER BY id ASC alone.
fetch_events_by_block_height_ById(rows, h) ==
  LET at == SelectSeq(rows, LAMBDA r : r.block_height = h)
  IN [i \in 1..Len(at) |-> from_row(at[i])]

\* SELECT .. WHERE block_height = $1 ORDER BY type_id ASC, id ASC.
fetch_events_by_block_height(rows, h) ==
  EventsOfType(rows, h, 1, 1) \o EventsOfType(rows, h, 2, 1)

\* The lookup with an absent row read as the default id 0.
fetch_inscription_id_by_genesis_id_OrDefault(insc, gid) ==
  IF \E i \in 1..Len(insc) : insc[i].genesis_id = gid
    THEN Some(CHOOSE i \in 1..Len(insc) : insc[i].genesis_id = gid)
    ELSE Some(0)

\* SELECT id FROM inscription WHERE genesis_id = $1.
fetch_inscription_id_by_genesis_id(insc, gid) ==
  IF \E i \in 1..Len(insc) : insc[i].genesis_id = gid
    THEN Some(CHOOSE i \in 1..Len(insc) : insc[i].genesis_id = gid)
    ELSE None

\* A plain INSERT, as if genesis_id carried no unique index.
save_inscription_PlainInsert(insc, details) ==
  Append(insc, [genesis_id |-> details.id,
                content_type |-> details.content_type,
                content_length |-> details.content_length])

\* COALESCE(new, existing).
Coalesce(new, existing) == IF new # None THEN new ELSE existing

\* INSERT INTO inscription .. ON CONFLICT (genesis_id) DO UPDATE SET ..
\* The surrogate id of a row is its place in the relation.
save_inscription(insc, details) ==
  LET found == fetch_inscription_id_by_genesis_id(insc, details.id)
  IN IF found = None
       THEN Append(insc, [genesis_id |-> details.id,
                          content_type |-> details.content_type,
                          content_length |-> details.content_length])
       ELSE [insc EXCEPT
              ![found[1]].content_type = details.content_type,
              ![found[1]].content_length =
                 Coalesce(details.content_length, @)]

LocationRow(id, h, t, tx_id, to_a, to_o, to_off, from_a, from_o, from_off, v) ==
  [inscription_id |-> id, block_height |-> h, block_time |-> t,
   tx_id |-> tx_id, to_address |-> to_a, cur_output |-> to_o,
   cur_offset |-> to_off, from_address |-> from_a,
   prev_output |-> from_o, prev_offset |-> from_off,
   value |-> v]

\* The WHERE clause of save_location's NOT EXISTS: SQL equality on each of
\* the eleven columns.
SameLocation(r, n) ==
  /\ r.inscription_id = n.inscription_id
  /\ r.block_height = n.block_height
  /\ r.block_time = n.block_time
  /\ SqlEq(r.tx_id, n.tx_id)
  /\ SqlEq(r.to_address, n.to_address)
  /\ SqlEq(r.cur_output, n.cur_output)
  /\ SqlEq(r.cur_offset, n.cur_offset)
  /\ SqlEq(r.from_address, n.from_address)
  /\ SqlEq(r.prev_output, n.prev_output)
  /\ SqlEq(r.prev_offset, n.prev_offset)
  /\ SqlEq(r.value, n.value)

\* INSERT INTO location .. SELECT .. WHERE NOT EXISTS (..).
save_location(locs, row) ==
  IF \E i \in 1..Len(locs) : SameLocation(locs[i], row)
    THEN locs
    ELSE Append(locs, row)

(***************************************************************************)
(* Concurrent callers of save_inscription (several BlockConsumer processes *)
(* on one database).  The upsert is one SQL statement, which the database  *)
(* executes atomically; its RETURNING id is the id of the row it wrote.    *)
(***************************************************************************)
Callers == {"a", "b"}

GenesisIds == {"i1", "i2"}

MaxCalls == 3

CallersStart ==
  [c \in Callers |-> [calls |-> 0, returned |-> [g \in GenesisIds |-> 0]]]

\* One call of save_inscription by caller c.
SI_Call(c) ==
  /\ callers[c].calls < MaxCalls
  /\ \E g \in GenesisIds, dv \in DetailVariants :
       LET insc2 == save_inscription(inscription, InscriptionDetails(g, dv))
           id == fetch_inscription_id_by_genesis_id(insc2, g)[1]
       IN /\ inscription' = insc2
          /\ callers' = [callers EXCEPT ![c].calls = @ + 1,
                                        ![c].returned[g] = id]
  /\ UNCHANGED <<nativeCount, queue, ec, bc, events, location, proc, lc,
                 pubVars, apiCall, chan>>

(***************************************************************************)
(* ApiClient (src/src/ord_api_client.rs): execute_with_retries.            *)
(***************************************************************************)
\* What `request.send().await` gives: no response (a transport error, 0) or
\* a response with an HTTP status.
NoResponse == 0

ApiResponses == {NoResponse, 200, 404, 429, 503}

\* The three operations, by the endpoint they request.
ApiEndpoints == {"/inscription/{id}/details", "/tx/{txid}", "/r/blockinfo/{h}"}

\* max_attempts, as every operation passes it.
ApiAttempts == 3

\* StatusCode::is_client_error, StatusCode::is_server_error.
is_client_error(status) == status \in 400..499

is_server_error(status) == status \in 500..599

\* Response::error_for_status: Err for a 4xx or 5xx status.
error_for_status(status) == is_client_error(status) \/ is_server_error(status)

\* The loop test with the bound included.
loop_continues_Inclusive(attempts, max_attempts) == attempts <= max_attempts

\* `while attempts < max_attempts`.
loop_continues(attempts, max_attempts) == attempts < max_attempts

ApiCallStart ==
  [pc |-> "idle", url |-> "none", attempts |-> 0, delay |-> 1,
   sent |-> <<>>, slept |-> <<>>, last_error |-> None,
   result |-> [kind |-> "none", last_error |-> None, url |-> "none"]]

\* fetch_inscription_details, fetch_tx, fetch_block_info: build the request
\* and enter execute_with_retries.
AC_Call ==
  /\ apiCall.pc = "idle"
  /\ \E url \in ApiEndpoints :
       apiCall' = [apiCall EXCEPT !.pc = "loop", !.url = url]
  /\ UNCHANGED <<nativeCount, queue, ec, bc, dbVars, proc, lc, pubVars,
                 callers, chan>>

\* One turn of the loop up to its return or its sleep: send the request and
\* match on the response.
AC_Send ==
  /\ apiCall.pc = "loop"
  /\ loop_continues(apiCall.attempts, ApiAttempts)
  /\ \E status \in ApiResponses, json_ok \in BOOLEAN :
       LET a == [apiCall EXCEPT !.sent = Append(@, status)]
       IN IF status = NoResponse
            THEN /\ json_ok
                 /\ apiCall' = [a EXCEPT !.last_error = Some(status),
                                         !.attempts = @ + 1, !.pc = "sleep"]
            ELSE IF ~error_for_status(status)
              THEN apiCall' =
                     [a EXCEPT !.pc = "returned",
                               !.result.kind = IF json_ok THEN "ok"
                                               ELSE "decode"]
              ELSE \* the guard of the second arm holds for every status
                   \* that error_for_status rejects
                   /\ json_ok
                   /\ is_server_error(status) \/ is_client_error(status)
                   /\ apiCall' = [a EXCEPT !.last_error = Some(status),
                                           !.attempts = @ + 1, !.pc = "sleep"]
  /\ UNCHANGED <<nativeCount, queue, ec, bc, dbVars, proc, lc, pubVars,
                 callers, chan>>

\* `sleep(delay).await; delay *= 2`.
AC_Sleep ==
  /\ apiCall.pc = "sleep"
  /\ apiCall' = [apiCall EXCEPT !.slept = Append(@, apiCall.delay),
                                !.delay = @ * 2, !.pc = "loop"]
  /\ UNCHANGED <<nativeCount, queue, ec, bc, dbVars, proc, lc, pubVars,
                 callers, chan>>

\* The loop is left: "Exceeded maximum retry attempts after .. tries. Last
\* error: ... Attempted endpoint: ..".
AC_Exhausted ==
  /\ apiCall.pc = "loop"
  /\ ~loop_continues(apiCall.attempts, ApiAttempts)
  /\ apiCall' = [apiCall EXCEPT
                   !.pc = "returned",
                   !.result = [kind |-> "exhausted",
                               last_error |-> apiCall.last_error,
                               url |-> apiCall.url]]
  /\ UNCHANGED <<nativeCount, queue, ec, bc, dbVars, proc, lc, pubVars,
                 callers, chan>>

(***************************************************************************)
(* InscriptionIndexation (src/src/indexer/inscription_indexation.rs).      *)
(***************************************************************************)
\* process_location after a successful fetch_tx: the address and value of
\* output vout, or None when there is no such output or no address.
process_location(loc) ==
  LET outs == TxOutputs(loc.txid)
      output == IF loc.vout + 1 <= Len(outs) THEN Some(outs[loc.vout + 1])
                ELSE None
      address == IF output = None THEN None ELSE output[1].address
  IN IF address = None THEN None
     ELSE Some([address |-> address[1], value |-> output[1].value])

\* Option::map over a location of an event row: its transaction id, ..
TxidOf(opt) == IF opt = None THEN None ELSE Some(opt[1].txid)

\* .. its outpoint, ..
OutpointOf(opt) == IF opt = None THEN None ELSE Some(<<opt[1].txid, opt[1].vout>>)

\* .. and its offset.
OffsetOf(opt) == IF opt = None THEN None ELSE Some(opt[1].offset)

\* Option::map over the result of process_location: the address, ..
AddressOf(opt) == IF opt = None THEN None ELSE Some(opt[1].address)

\* .. and the value.
ValueOf(opt) == IF opt = None THEN None ELSE Some(opt[1].value)

\* The calls of process_inscription_created that may fail, in call order.
CreatedFailPoints(ev) ==
  {"details", "save_inscription", "save_location", "none"}
    \cup (IF ev.location # None THEN {"fetch_tx_to"} ELSE {})

\* A failure after the upsert takes the upserted inscription row back.
process_inscription_created_Rollback(ev, block_time, insc, locs, failAt, dv) ==
  LET details == InscriptionDetails(ev.inscription_id, dv)
      insc2 == save_inscription(insc, details)
      id == fetch_inscription_id_by_genesis_id(insc2, details.id)[1]
      to == IF ev.location = None THEN None ELSE process_location(ev.location[1])
      nTx == IF ev.location = None THEN 0 ELSE 1
      row == LocationRow(id, ev.block_height, block_time,
                         TxidOf(ev.location), AddressOf(to),
                         OutpointOf(ev.location),
                         OffsetOf(ev.location),
                         None, None, None, ValueOf(to))
  IN IF failAt = "none"
       THEN [inscription |-> insc2, location |-> save_location(locs, row),
             ok |-> TRUE, api |-> 1 + nTx]
       ELSE [inscription |-> insc, location |-> locs, ok |-> FALSE,
             api |-> IF failAt \in {"details", "save_inscription"}
                       THEN 1 ELSE 1 + nTx]

\* process_inscription_created, given which call (if any) fails and what
\* the API answers: the two relations afterwards, whether it returned Ok,
\* and the number of API requests it made.
process_inscription_created(ev, block_time, insc, locs, failAt, dv) ==
  LET details == InscriptionDetails(ev.inscription_id, dv)
      insc2 == save_inscription(insc, details)
      id == fetch_inscription_id_by_genesis_id(insc2, details.id)[1]
      to == IF ev.location = None THEN None ELSE process_location(ev.location[1])
      nTx == IF ev.location = None THEN 0 ELSE 1
      row == LocationRow(id, ev.block_height, block_time,
                         TxidOf(ev.location), AddressOf(to),
                         OutpointOf(ev.location),
                         OffsetOf(ev.location),
                         None, None, None, ValueOf(to))
  IN CASE failAt = "details" ->
            [inscription |-> insc, location |-> locs, ok |-> FALSE, api |-> 1]
       [] failAt = "save_inscription" ->
            [inscription |-> insc, location |-> locs, ok |-> FALSE, api |-> 1]
       [] failAt = "fetch_tx_to" ->
            [inscription |-> insc2, location |-> locs, ok |-> FALSE, api |-> 2]
       [] failAt = "save_location" ->
            [inscription |-> insc2, location |-> locs, ok |-> FALSE,
             api |-> 1 + nTx]
       [] OTHER ->
            [inscription |-> insc2, location |-> save_location(locs, row),
             ok |-> TRUE, api |-> 1 + nTx]

\* The calls of process_inscription_transferred that may fail.
TransferredFailPoints(ev) ==
  {"lookup", "save_location", "none"}
    \cup (IF ev.location # None THEN {"fetch_tx_to"} ELSE {})
    \cup (IF ev.old_location # None THEN {"fetch_tx_from"} ELSE {})

\* process_inscription_transferred: an unknown genesis_id is an error.
process_inscription_transferred(ev, block_time, insc, locs, failAt) ==
  LET found == fetch_inscription_id_by_genesis_id(insc, ev.inscription_id)
      to == IF ev.location = None THEN None ELSE process_location(ev.location[1])
      from == IF ev.old_location = None THEN None
              ELSE process_location(ev.old_location[1])
      nTo == IF ev.location = None THEN 0 ELSE 1
      nFrom == IF ev.old_location = None THEN 0 ELSE 1
      row == LocationRow(found[1], ev.block_height, block_time,
                         TxidOf(ev.location), AddressOf(to),
                         OutpointOf(ev.location),
                         OffsetOf(ev.location),
                         AddressOf(from),
                         OutpointOf(ev.old_location),
                         OffsetOf(ev.old_location),
                         ValueOf(to))
  IN CASE failAt = "lookup" \/ found = None ->
            [inscription |-> insc, location |-> locs, ok |-> FALSE, api |-> 0]
       [] failAt = "fetch_tx_to" ->
            [inscription |-> insc, location |-> locs, ok |-> FALSE, api |-> 1]
       [] failAt = "fetch_tx_from" ->
            [inscription |-> insc, location |-> locs, ok |-> FALSE,
             api |-> nTo + 1]
       [] failAt = "save_location" ->
            [inscription |-> insc, location |-> locs, ok |-> FALSE,
             api |-> nTo + nFrom]
       [] OTHER ->
            [inscription |-> insc, location |-> save_location(locs, row),
             ok |-> TRUE, api |-> nTo + nFrom]

(***************************************************************************)
(* BlockConsumer (src/src/indexer/block_consumer.rs).                      *)
(***************************************************************************)
BcIdle ==
  [pc |-> "next", mid |-> 0, delivery_count |-> 0, tag |-> "none", h |-> 0,
   events |-> <<>>, idx |-> 0, block_time |-> 0, result |-> "none",
   failed |-> {}, injected |-> {}, api |-> 0, response |-> "none",
   fail |-> "none"]

\* sync_blocks going on to fetch_block_info whatever was fetched.
events_is_empty_Never(evs) == FALSE

\* sync_blocks: `if (events.is_empty()) { return Ok(()); }`.
events_is_empty(evs) == evs = <<>>

\* handle_delivery: the count read from the x-delivery-count header.
delivery_count(hdr) == IF hdr.kind = "LongLongInt" THEN hdr.n ELSE 0

\* consume_queue: `consumer.next().await`.
BC_Next ==
  /\ Running("bc")
  /\ awaits_next(bc.pc)
  /\ queue["blocks"].ready # <<>>
  /\ bc' = [BcIdle EXCEPT !.pc = "handle", !.mid = Head(queue["blocks"].ready)]
  /\ queue' = Deliver(queue, "blocks")
  /\ UNCHANGED <<nativeCount, ec, dbVars, pubVars, proc, lc, clientVars>>

\* handle_delivery: deserialize, read the delivery count, process_event up
\* to sync_blocks' fetch_events_by_block_height (which may fail).
BC_Handle ==
  /\ Running("bc")
  /\ bc.pc = "handle"
  /\ LET m == queue["blocks"].msgs[bc.mid]
         d == Deserialize(m.data)
         n == delivery_count(DeliveredHeader(m))
     IN IF ~d.ok
          THEN bc' = [bc EXCEPT !.pc = "respond", !.result = "poison",
                                !.delivery_count = n, !.tag = "garbage"]
          ELSE IF d.event.tag # "BlockCommitted"
            THEN bc' = [bc EXCEPT !.pc = "respond", !.result = "ok",
                                  !.delivery_count = n, !.tag = d.event.tag]
            ELSE \E dbOk \in DbOutcomes("bc") :
                   LET evs == fetch_events_by_block_height(events, d.event.height)
                       b == [bc EXCEPT !.delivery_count = n,
                                       !.tag = d.event.tag,
                                       !.h = d.event.height]
                   IN IF ~dbOk
                        THEN bc' = [b EXCEPT !.pc = "respond", !.result = "err"]
                        ELSE IF events_is_empty(evs)
                          THEN bc' = [b EXCEPT !.pc = "respond", !.result = "ok"]
                          ELSE bc' = [b EXCEPT !.pc = "block_info", !.events = evs]
  /\ UNCHANGED <<nativeCount, queue, ec, dbVars, pubVars, proc, lc, clientVars>>

\* sync_blocks: fetch_block_info, whose failure fails sync_blocks.
BC_BlockInfo ==
  /\ Running("bc")
  /\ bc.pc = "block_info"
  /\ \E apiOk \in BOOLEAN :
       IF apiOk
         THEN bc' = [bc EXCEPT !.pc = "events", !.idx = 1,
                               !.block_time = BlockTime(bc.h), !.api = @ + 1]
         ELSE bc' = [bc EXCEPT !.pc = "respond", !.result = "err", !.api = @ + 1]
  /\ UNCHANGED <<nativeCount, queue, ec, dbVars, pubVars, proc, lc, clientVars>>

\* The loop goes on only after an event that was processed without error.
sync_blocks_continues_StopsOnError(ok) == ok

\* sync_blocks: what the loop does once the processing of one event has
\* returned: an error is logged and the loop goes on.
sync_blocks_continues(ok) == TRUE

\* sync_blocks: one turn of `for event in events`.
BC_Event ==
  /\ Running("bc")
  /\ bc.pc = "events"
  /\ LET ev == bc.events[bc.idx]
         last == bc.idx = Len(bc.events)
     IN \E failAt \in (IF ev.type_id = 1 THEN CreatedFailPoints(ev)
                       ELSE TransferredFailPoints(ev)),
           dv \in DetailVariants :
          LET r == IF ev.type_id = 1
                     THEN process_inscription_created(
                            ev, bc.block_time, inscription, location, failAt, dv)
                     ELSE process_inscription_transferred(
                            ev, bc.block_time, inscription, location, failAt)
          IN /\ ev.type_id = 2 => dv = "full"
             /\ inscription' = r.inscription
             /\ location' = r.location
             /\ bc' = IF ~sync_blocks_continues(r.ok)
                        THEN [bc EXCEPT !.pc = "respond", !.result = "err",
                                        !.api = @ + r.api,
                                        !.failed = @ \cup {bc.idx},
                                        !.injected =
                                           IF failAt = "none" THEN @
                                           ELSE @ \cup {bc.idx}]
                        ELSE [bc EXCEPT
                               !.api = @ + r.api,
                               !.injected = IF failAt = "none" THEN @
                                            ELSE @ \cup {bc.idx},
                               !.failed = IF r.ok THEN @ ELSE @ \cup {bc.idx},
                               !.idx = IF last THEN @ ELSE @ + 1,
                               !.pc = IF last THEN "respond" ELSE @,
                               !.result = IF last THEN "ok" ELSE @]
  /\ UNCHANGED <<nativeCount, queue, ec, events, pubVars, proc, lc, clientVars>>

\* Mutant of BC_response: a payload that does not deserialize goes through
\* the redelivery test like a processing failure.
BC_response_PoisonRetried(result, count) ==
  CASE result = "ok" -> "ack"
    [] OTHER -> IF count >= MaxDelivery THEN "reject" ELSE "nack"

\* handle_delivery: the acknowledgement for a result of process_event.
BC_response(result, count) ==
  CASE result = "ok" -> "ack"
    [] result = "poison" -> "reject"
    [] OTHER -> IF count >= MaxDelivery THEN "reject" ELSE "nack"

\* handle_delivery: delivery.ack / .reject { requeue: false } /
\* .nack { requeue: true }.
BC_Respond ==
  /\ Running("bc")
  /\ bc.pc = "respond"
  /\ LET op == BC_response(bc.result, bc.delivery_count)
     IN /\ queue' = CASE op = "ack" -> BrokerAck(queue, "blocks", bc.mid)
                      [] op = "reject" ->
                           BrokerReject(queue, "blocks", bc.mid, FALSE)
                      [] OTHER -> BrokerReject(queue, "blocks", bc.mid, TRUE)
        /\ bc' = [bc EXCEPT !.pc = "next", !.response = op]
  /\ UNCHANGED <<nativeCount, ec, dbVars, pubVars, proc, lc, clientVars>>

\* The positions of consume_queue at which handle_delivery is in progress
\* inside select!.
BC_Handling == {"handle", "block_info", "events", "respond"}

\* select!: the shutdown branch.  The handler's future is dropped and the
\* delivery in hand gets no answer.
BC_Shutdown ==
  /\ Running("bc")
  /\ bc.pc \in BC_Handling
  /\ proc["bc"].signal
  /\ bc' = [bc EXCEPT !.pc = "closing"]
  /\ queue' = DropDelivery(queue, "blocks", bc.mid)
  /\ UNCHANGED <<nativeCount, ec, dbVars, pubVars, proc, lc, clientVars>>

\* run: the spawned task maps consume_queue's Err to process::exit(1).
BC_exit_on_error(strategy) == 1

\* consume_queue returns Err: the delivery stream yielded an error
\* (`result?`) or the ack / nack / reject failed (`process_result?`).
BC_BrokerError ==
  /\ Running("bc")
  /\ bc.pc \in {"next", "respond"}
  /\ \E strategy \in PanicStrategies :
       proc' = [proc EXCEPT !["bc"].exit = BC_exit_on_error(strategy)]
  /\ bc' = [bc EXCEPT !.pc = "failed",
                      !.fail = IF bc.pc = "next" THEN "stream" ELSE "respond"]
  /\ UNCHANGED <<nativeCount, queue, ec, dbVars, pubVars, lc, clientVars>>

\* consume_queue after the loop: channel.close(200, ..).await?, Ok(()).
BC_Close ==
  /\ Running("bc")
  /\ bc.pc = "closing"
  /\ \E ok \in BOOLEAN, strategy \in PanicStrategies :
       /\ ok => strategy = "unwind"
       /\ bc' = IF ok THEN [bc EXCEPT !.pc = "done"]
                ELSE [bc EXCEPT !.pc = "failed", !.fail = "close"]
       /\ proc' = [proc EXCEPT
            !["bc"].close_code = 200,
            !["bc"].exit = IF ok THEN @ ELSE BC_exit_on_error(strategy)]
  /\ UNCHANGED <<nativeCount, queue, ec, dbVars, pubVars, lc, clientVars>>

(***************************************************************************)
(* run of both consumers after the spawn: SIGTERM, join, pool.close().     *)
(***************************************************************************)
\* The consumer task of process p.
Consumer(p) == IF p = "ec" THEN ec ELSE bc

\* The delivery the consumer of p is handling, 0 if none.
InHand(p) ==
  IF Consumer(p).pc \in (IF p = "ec" THEN EC_Handling ELSE BC_Handling)
    THEN Consumer(p).mid ELSE 0

\* run: sigterm.recv() returns and the oneshot signal is sent.
Sigterm(p) ==
  /\ Running(p)
  /\ proc[p].sup = "wait"
  /\ proc' = [proc EXCEPT ![p].sup = "join", ![p].signal = TRUE,
                          ![p].during = InHand(p)]
  /\ UNCHANGED <<nativeCount, queue, ec, bc, dbVars, pubVars, lc, clientVars>>

\* run: try_join! of the one handle returns once the task has ended, with
\* its result or by a panic.
try_join_one(c) == c.pc \in {"done", "failed"}

\* run: try_join! returns, the pool is closed and run returns Ok(None).
Sup_ClosePool(p) ==
  /\ Running(p)
  /\ proc[p].sup = "join"
  /\ try_join_one(Consumer(p))
  /\ proc' = [proc EXCEPT ![p].sup = "returned", ![p].pool_open = FALSE,
                          ![p].exit = 0]
  /\ UNCHANGED <<nativeCount, queue, ec, bc, dbVars, pubVars, lc, clientVars>>

(***************************************************************************)
(* BrokerConnector (src/src/indexer/rmq_con.rs).                           *)
(***************************************************************************)
\* setup_rabbitmq_connection: `let mut attempts = 10`.
ConnectAttempts == 10

\* setup_rabbitmq_connection at its start.
ConnStart ==
  [attempts |-> ConnectAttempts, backoff_delay |-> 1, slept |-> <<>>,
   status |-> "running"]

\* setup_rabbitmq_connection: one turn of its loop, create_channel having
\* succeeded or failed.  status: running, ok, err (the error of
\* create_channel) or exhausted (the error after the loop).
rmq_attempt(c, ok) ==
  IF ok THEN [c EXCEPT !.status = "ok"]
  ELSE IF c.attempts - 1 < 0 THEN [c EXCEPT !.attempts = @ - 1, !.status = "err"]
  ELSE [c EXCEPT !.attempts = @ - 1,
                 !.slept = Append(@, c.backoff_delay),
                 !.backoff_delay = @ * 2,
                 !.status = IF c.attempts - 1 > 0 THEN "running" ELSE "exhausted"]

(***************************************************************************)
(* The channels the components are handed, and the broker's flow control   *)
(* on them: the broker pushes deliveries of a consumed queue while the     *)
(* channel's unacknowledged deliveries are below its prefetch count; a     *)
(* prefetch count of 0, the value of a channel on which basic_qos was      *)
(* never called, is no limit.                                              *)
(***************************************************************************)
Holders == {"BlockConsumer", "EventConsumer", "Publisher"}

ChannelConsumers == {"BlockConsumer", "EventConsumer"}

Unlimited == 0

\* basic_qos(2, ..) in rabbit_qos_setup.
PrefetchCount == 2

\* Messages a queue receives during a run.
MaxQueued == 4

ChanStart ==
  [h \in Holders |->
     [pc |-> "start", confirm |-> FALSE, prefetch |-> Unlimited,
      ready |-> 0, unacked |-> 0]]

\* create_channel: a channel of a new connection, confirm_select called.
create_channel(c) == [c EXCEPT !.confirm = TRUE]

\* rabbit_qos_setup: basic_qos(2) on the channel.
rabbit_qos_setup(c) == [c EXCEPT !.prefetch = PrefetchCount]

\* The channel component h works with: BlockConsumer::run and
\* EventConsumer::run use the channel of setup_rabbitmq_connection as it
\* is, consume_channel of the Publisher passes it through rabbit_qos_setup.
Ch_Setup(h) ==
  /\ chan[h].pc = "start"
  /\ chan' = [chan EXCEPT
       ![h] = [(IF h = "Publisher"
                  THEN rabbit_qos_setup(create_channel(chan[h]))
                  ELSE create_channel(chan[h]))
               EXCEPT !.pc = "handed"]]
  /\ UNCHANGED <<nativeCount, queue, ec, bc, dbVars, proc, lc, pubVars,
                 callers, apiCall>>

\* A message arrives on the queue that h consumes.
Ch_Enqueue(h) ==
  /\ h \in ChannelConsumers
  /\ chan[h].ready + chan[h].unacked < MaxQueued
  /\ chan' = [chan EXCEPT ![h].ready = @ + 1]
  /\ UNCHANGED <<nativeCount, queue, ec, bc, dbVars, proc, lc, pubVars,
                 callers, apiCall>>

\* The broker's test before it pushes a delivery on a channel.
within_prefetch(prefetch, unacked) ==
  prefetch = Unlimited \/ unacked < prefetch

\* The broker pushes the next ready message to the consumer of h
\* (basic_consume was called on the channel).
Ch_Push(h) ==
  /\ h \in ChannelConsumers
  /\ chan[h].pc = "handed"
  /\ chan[h].ready > 0
  /\ within_prefetch(chan[h].prefetch, chan[h].unacked)
  /\ chan' = [chan EXCEPT ![h].ready = @ - 1, ![h].unacked = @ + 1]
  /\ UNCHANGED <<nativeCount, queue, ec, bc, dbVars, proc, lc, pubVars,
                 callers, apiCall>>

\* handle_delivery answers the delivery in hand (ack, reject or nack
\* without requeue).
Ch_Answer(h) ==
  /\ h \in ChannelConsumers
  /\ chan[h].unacked > 0
  /\ chan' = [chan EXCEPT ![h].unacked = @ - 1]
  /\ UNCHANGED <<nativeCount, queue, ec, bc, dbVars, proc, lc, pubVars,
                 callers, apiCall>>

(***************************************************************************)
(* Publisher (src/src/indexer/event_publisher.rs).                         *)
(***************************************************************************)
\* Events the producer sends during a run.
MaxEvents == 2

\* mpsc::channel::<Event>(1).
ChannelCapacity == 1

\* consume_channel: `let mut max_attempts = 8`.
PublishRetries == 8

\* The variants the producer sends.
PubVariants == {"InscriptionCreated", "BlockCommitted"}

\* The variant of the first event of a run: any of them.
FirstVariants == EventVariants

\* Mutant of type_name: two arms of the match carry each other's name.
type_name_ArmsSwapped(event) ==
  CASE event.tag = "RuneEtched" -> "RuneMinted"
    [] event.tag = "RuneMinted" -> "RuneEtched"
    [] OTHER -> event.tag

\* EventPublisher::type_name: one arm per variant.
type_name(event) ==
  CASE event.tag = "InscriptionCreated" -> "InscriptionCreated"
    [] event.tag = "InscriptionTransferred" -> "InscriptionTransferred"
    [] event.tag = "RuneBurned" -> "RuneBurned"
    [] event.tag = "RuneEtched" -> "RuneEtched"
    [] event.tag = "RuneMinted" -> "RuneMinted"
    [] event.tag = "RuneTransferred" -> "RuneTransferred"
    [] event.tag = "BlockCommitted" -> "BlockCommitted"

\* serde_json::to_vec(&event): the bytes of the event (its variant and, for
\* the model, its number in the run).
to_vec(event) == <<"json", event.tag, event.n>>

\* Nothing was published yet.
NoWire == [routing_key |-> "none", message |-> <<>>]

\* Mutant of publish_ok: the confirm is not tested for being an ack.
publish_ok_AnyConfirm(outcome) == outcome # "error"

\* publish_message: Ok only for a confirm that is an ack.
publish_ok(outcome) == outcome = "ack"

\* consume_channel: a failed attempt ends the retry loop with the error.
retries_exhausted(max_attempts) == max_attempts = 0

\* consume_channel: `publish_retried?`, where the loop broke with an error.
after_exhaustion == "fatal"

\* consume_channel: `setup_rabbitmq_connection(&addr).await?` inside the
\* retry loop, where the connection could not be set up.
after_reconnect_failure == "fatal"

\* run: the arm of `match consume_channel(..)` for Err calls
\* shutdown_process().
run_shuts_down == TRUE

PubStart ==
  [pc |-> "connect", for |-> "init", conn |-> ConnStart, channel |-> 0,
   event |-> [tag |-> "none", n |-> 0], routing_key |-> "none",
   message |-> <<>>, wire |-> NoWire,
   max_attempts |-> 0, backoff_delay |-> 0, attempts |-> 0, slept |-> <<>>,
   used |-> 0, reconn |-> "none", prev |-> 0, cause |-> "none"]

\* consume_channel returns Err(cause): run logs it and shuts the process down.
Fatal(p, cause) == [p EXCEPT !.pc = "fatal", !.cause = cause]

\* A producer sends an event into the bounded channel.
P_Send ==
  /\ rx.open
  /\ rx.sent < MaxEvents
  /\ Len(rx.buf) < ChannelCapacity
  /\ \E tag \in (IF rx.sent = 0 THEN FirstVariants ELSE PubVariants) :
       rx' = [rx EXCEPT !.buf = Append(@, [tag |-> tag, n |-> rx.sent + 1]),
                        !.sent = @ + 1]
  /\ UNCHANGED <<pub, dequeued, confirmed, shutdown, consumerVars>>

\* Every sender is dropped.
P_Close ==
  /\ rx.open
  /\ rx' = [rx EXCEPT !.open = FALSE]
  /\ UNCHANGED <<pub, dequeued, confirmed, shutdown, consumerVars>>

\* setup_rabbitmq_connection: one create_channel attempt, for
\* consume_channel's first channel or inside its retry loop.
P_Connect ==
  /\ pub.pc = "connect"
  /\ \E ok \in BOOLEAN :
       LET c == rmq_attempt(pub.conn, ok)
       IN /\ pub' =
               CASE c.status = "ok" ->
                      [pub EXCEPT !.conn = c, !.pc = "qos"]
                 [] c.status = "running" -> [pub EXCEPT !.conn = c]
                 [] OTHER ->
                      IF pub.for = "init"
                        THEN Fatal([pub EXCEPT !.conn = c], "connect")
                        ELSE [pub EXCEPT !.conn = c,
                                         !.pc = after_reconnect_failure,
                                         !.cause = "reconnect"]
          /\ shutdown' = (shutdown \/ (pub'.pc = "fatal" /\ run_shuts_down))
  /\ UNCHANGED <<rx, dequeued, confirmed, consumerVars>>

\* rabbit_qos_setup on the channel just created: at the start its failure is
\* fatal, in the retry loop the previous channel is kept (unwrap_or), and
\* the backoff delay doubles either way.  Channels are numbered in the
\* order consume_channel adopts them.
P_Qos ==
  /\ pub.pc = "qos"
  /\ \E ok \in BOOLEAN :
       /\ pub' =
            IF pub.for = "init"
              THEN IF ok THEN [pub EXCEPT !.channel = @ + 1, !.pc = "recv"]
                   ELSE Fatal(pub, "qos")
              ELSE [pub EXCEPT
                     !.prev = pub.channel,
                     !.channel = IF ok THEN @ + 1 ELSE @,
                     !.reconn = IF ok THEN "ok" ELSE "qos_failed",
                     !.backoff_delay = @ * 2,
                     !.pc = "publish"]
       /\ shutdown' = (shutdown \/ (pub'.pc = "fatal" /\ run_shuts_down))
  /\ UNCHANGED <<rx, dequeued, confirmed, consumerVars>>

\* `while let Some(event) = rx.recv().await`: the next event, or the end of
\* the loop once every sender is gone.
P_Recv ==
  /\ pub.pc = "recv"
  /\ \/ /\ rx.buf # <<>>
        /\ pub' = [pub EXCEPT
             !.pc = "publish", !.event = Head(rx.buf),
             !.routing_key = type_name(Head(rx.buf)),
             !.message = to_vec(Head(rx.buf)),
             !.backoff_delay = 1, !.max_attempts = PublishRetries,
             !.attempts = 0, !.slept = <<>>, !.reconn = "none"]
        /\ rx' = [rx EXCEPT !.buf = Tail(@)]
        /\ dequeued' = Append(dequeued, Head(rx.buf))
     \/ /\ rx.buf = <<>>
        /\ ~rx.open
        /\ pub' = [pub EXCEPT !.pc = "closed"]
        /\ UNCHANGED <<rx, dequeued>>
  /\ UNCHANGED <<confirmed, shutdown, consumerVars>>

\* One turn of the retry loop: publish_message on the current channel, and
\* on a failure the give-up test, the decrement and the backoff sleep.
P_Publish ==
  /\ pub.pc = "publish"
  /\ \E outcome \in {"ack", "nack", "error"} :
       LET p == [pub EXCEPT
                  !.attempts = @ + 1, !.used = pub.channel,
                  !.wire = [routing_key |-> pub.routing_key,
                            message |-> pub.message]]
       IN IF publish_ok(outcome)
            THEN /\ pub' = [p EXCEPT !.pc = "recv"]
                 /\ confirmed' = IF outcome = "ack"
                                   THEN Append(confirmed, pub.event)
                                   ELSE confirmed
                 /\ UNCHANGED shutdown
            ELSE /\ UNCHANGED confirmed
                 /\ IF retries_exhausted(pub.max_attempts)
                      THEN /\ pub' = [p EXCEPT !.pc = after_exhaustion,
                                               !.cause = "exhausted"]
                           /\ shutdown' =
                                (shutdown \/ (pub'.pc = "fatal" /\ run_shuts_down))
                      ELSE /\ pub' = [p EXCEPT
                                !.max_attempts = @ - 1,
                                !.slept = Append(@, pub.backoff_delay),
                                !.pc = "connect", !.for = "retry",
                                !.conn = ConnStart]
                           /\ UNCHANGED shutdown
  /\ UNCHANGED <<rx, dequeued, consumerVars>>

(***************************************************************************)
(* The earlier Publisher (src/src/event_publisher.rs), which the           *)
(* EventServer subcommand starts (src/src/subcommand.rs).                  *)
(***************************************************************************)
\* mpsc::channel::<Event>(128).
LegacyChannelCapacity == 128

\* The Publisher thread panicked (expect / assert!).
Panicked(p, cause) == [p EXCEPT !.pc = "fatal", !.cause = cause]

\* A producer sends an event into the bounded channel.
L_Send ==
  /\ rx.open
  /\ rx.sent < MaxEvents
  /\ Len(rx.buf) < LegacyChannelCapacity
  /\ \E tag \in PubVariants :
       rx' = [rx EXCEPT !.buf = Append(@, [tag |-> tag, n |-> rx.sent + 1]),
                        !.sent = @ + 1]
  /\ UNCHANGED <<pub, dequeued, confirmed, shutdown, consumerVars>>

\* Every sender is dropped.
L_Close ==
  /\ rx.open
  /\ rx' = [rx EXCEPT !.open = FALSE]
  /\ UNCHANGED <<pub, dequeued, confirmed, shutdown, consumerVars>>

\* run: connect, create_channel and confirm_select, each with `expect`.
L_Connect ==
  /\ pub.pc = "connect"
  /\ \E ok \in BOOLEAN, strategy \in PanicStrategies :
       /\ ok => strategy = "unwind"
       /\ pub' = IF ok THEN [pub EXCEPT !.channel = 1, !.pc = "recv"]
                 ELSE Panicked(pub, "connect")
       /\ shutdown' = (shutdown \/ (~ok /\ strategy = "abort"))
  /\ UNCHANGED <<rx, dequeued, confirmed, consumerVars>>

\* run: `while let Some(event) = rx.recv().await`.
L_Recv ==
  /\ pub.pc = "recv"
  /\ \/ /\ rx.buf # <<>>
        /\ pub' = [pub EXCEPT !.pc = "publish", !.event = Head(rx.buf),
                              !.routing_key = type_name(Head(rx.buf)),
                              !.message = to_vec(Head(rx.buf)),
                              !.attempts = 0]
        /\ rx' = [rx EXCEPT !.buf = Tail(@)]
        /\ dequeued' = Append(dequeued, Head(rx.buf))
     \/ /\ rx.buf = <<>>
        /\ ~rx.open
        /\ pub' = [pub EXCEPT !.pc = "closed"]
        /\ UNCHANGED <<rx, dequeued>>
  /\ UNCHANGED <<confirmed, shutdown, consumerVars>>

\* run: basic_publish with `expect` on the publish and on its confirm, then
\* `assert!(publish.is_ack())`: one attempt, and a panic unless it is acked.
L_Publish ==
  /\ pub.pc = "publish"
  /\ \E outcome \in {"ack", "nack", "error"}, strategy \in PanicStrategies :
       LET p == [pub EXCEPT
                  !.attempts = @ + 1, !.used = pub.channel,
                  !.wire = [routing_key |-> pub.routing_key,
                            message |-> pub.message]]
       IN /\ outcome = "ack" => strategy = "unwind"
          /\ pub' = IF outcome = "ack" THEN [p EXCEPT !.pc = "recv"]
                    ELSE Panicked(p, "publish")
          /\ confirmed' = IF outcome = "ack" THEN Append(confirmed, pub.event)
                          ELSE confirmed
          /\ shutdown' = (shutdown \/ (outcome # "ack" /\ strategy = "abort"))
  /\ UNCHANGED <<rx, dequeued, consumerVars>>

(***************************************************************************)
(* The earlier EventConsumer (src/src/event_consumer.rs): one process, one *)
(* pool, a consumer task for each of the two queues.  Deliveries are kept  *)
(* abstract: a task takes one, calls the database, answers.                *)
(***************************************************************************)
\* Deliveries each task takes during a run.
MaxLegacyDeliveries == 2

\* Both tasks are given `channel.clone()`, a second handle of the one
\* channel run created: channel_open is the state of that channel, and
\* on_closed counts a task's operations on it after it was closed.
LcStart ==
  [task |-> [q \in Queues |->
               [pc |-> "consume", got |-> 0, db_closed |-> 0,
                on_closed |-> 0]],
   channel_open |-> TRUE,
   sup |-> "wait", signal |-> FALSE, pool_open |-> TRUE, exit |-> -1]

\* consume_queue: basic_consume(..).await.expect("creates rmq consumer").
LC_Consume(q) ==
  /\ lc.exit = -1
  /\ lc.task[q].pc = "consume"
  /\ \E ok \in BOOLEAN :
       lc' = [lc EXCEPT ![ "task"][q].pc = IF ok THEN "next" ELSE "panicked"]
  /\ UNCHANGED <<nativeCount, queue, ec, bc, dbVars, proc, pubVars, clientVars>>

\* consume_queue: consumer.next().await yields a delivery.
LC_Next(q) ==
  /\ lc.exit = -1
  /\ lc.task[q].pc = "next"
  /\ lc.task[q].got < MaxLegacyDeliveries
  /\ lc' = [lc EXCEPT !["task"][q].pc = "handle", !["task"][q].got = @ + 1]
  /\ UNCHANGED <<nativeCount, queue, ec, bc, dbVars, proc, pubVars, clientVars>>

\* handle_delivery: process_event (a database call, which fails on a closed
\* pool), then ack or reject; an error of either is dropped by the
\* `_ = handle_delivery(..) => {}` arm and the loop goes on.  db_closed
\* counts the calls made on the closed pool.  The ack or reject is sent on
\* the task's channel handle, whatever the state of the channel.
LC_Handle(q) ==
  /\ lc.exit = -1
  /\ lc.task[q].pc = "handle"
  /\ lc' = [lc EXCEPT !["task"][q].pc = "next",
                      !["task"][q].db_closed =
                         IF lc.pool_open THEN @ ELSE 1,
                      !["task"][q].on_closed =
                         IF lc.channel_open THEN @ ELSE 1]
  /\ UNCHANGED <<nativeCount, queue, ec, bc, dbVars, proc, pubVars, clientVars>>

\* select!: the shutdown branch.
LC_Shutdown(q) ==
  /\ lc.exit = -1
  /\ lc.task[q].pc = "handle"
  /\ lc.signal
  /\ lc' = [lc EXCEPT !["task"][q].pc = "closing"]
  /\ UNCHANGED <<nativeCount, queue, ec, bc, dbVars, proc, pubVars, clientVars>>

\* consume_queue after the loop: channel.close(200, ..).await?, Ok(()).
\* Closing a channel that is closed already is an error.
LC_Close(q) ==
  /\ lc.exit = -1
  /\ lc.task[q].pc = "closing"
  /\ IF ~lc.channel_open
       THEN lc' = [lc EXCEPT !["task"][q].pc = "failed",
                             !["task"][q].on_closed = 1]
       ELSE \E ok \in BOOLEAN :
              lc' = [lc EXCEPT
                !["task"][q].pc = IF ok THEN "done" ELSE "failed",
                !.channel_open = ~ok]
  /\ UNCHANGED <<nativeCount, queue, ec, bc, dbVars, proc, pubVars, clientVars>>

\* run: sigterm.recv() returns and both oneshot signals are sent.
LC_Sigterm ==
  /\ lc.exit = -1
  /\ lc.sup = "wait"
  /\ lc' = [lc EXCEPT !.sup = "join", !.signal = TRUE]
  /\ UNCHANGED <<nativeCount, queue, ec, bc, dbVars, proc, pubVars, clientVars>>

\* run: try_join!(blocks_consumer_handle, inscriptions_consumer_handle)
\* returns when both tasks have ended, or as soon as one handle yields Err,
\* which a JoinHandle does for a task that panicked.
try_join_two(task) ==
  \/ \A q \in Queues : task[q].pc \in {"done", "failed", "panicked"}
  \/ \E q \in Queues : task[q].pc = "panicked"

\* run: try_join! returns and shared_pool.close().await closes the pool.
LC_ClosePool ==
  /\ lc.exit = -1
  /\ lc.sup = "join"
  /\ try_join_two(lc.task)
  /\ lc' = [lc EXCEPT !.sup = "closed", !.pool_open = FALSE]
  /\ UNCHANGED <<nativeCount, queue, ec, bc, dbVars, proc, pubVars, clientVars>>

\* run returns Ok(None): the runtime is dropped and the process ends.
LC_Return ==
  /\ lc.exit = -1
  /\ lc.sup = "closed"
  /\ lc' = [lc EXCEPT !.sup = "returned", !.exit = 0]
  /\ UNCHANGED <<nativeCount, queue, ec, bc, dbVars, proc, pubVars, clientVars>>

(***************************************************************************)
(* The consumers' specification.                                           *)
(***************************************************************************)
vars == <<consumerVars, pubVars>>

Init ==
  /\ nativeCount \in BOOLEAN
  /\ queue = [q \in Queues |-> [msgs |-> <<>>, ready |-> <<>>]]
  /\ ec = [pc |-> "next", mid |-> 0, result |-> "none", fail |-> "none"]
  /\ bc = BcIdle
  /\ events = <<>>
  /\ inscription = <<>>
  /\ location = <<>>
  /\ pub = PubStart
  /\ rx = [buf |-> <<>>, sent |-> 0, open |-> TRUE]
  /\ dequeued = <<>>
  /\ confirmed = <<>>
  /\ shutdown = FALSE
  /\ proc = [p \in Processes |-> ProcStart]
  /\ lc = LcStart
  /\ callers = CallersStart
  /\ apiCall = ApiCallStart
  /\ chan = ChanStart

Produce == \E q \in Queues : BrokerEnqueue(q)

Next ==
  \/ Produce
  \/ EC_Next
  \/ EC_Handle
  \/ EC_Respond
  \/ BC_Next
  \/ BC_Handle
  \/ BC_BlockInfo
  \/ BC_Event
  \/ BC_Respond

Spec == Init /\ [][Next]_vars

(***************************************************************************)
(* The Publisher's specification.                                          *)
(***************************************************************************)
NextPub ==
  \/ P_Send
  \/ P_Close
  \/ P_Connect
  \/ P_Qos
  \/ P_Recv
  \/ P_Publish

SpecPub == Init /\ [][NextPub]_vars

(***************************************************************************)
(* The earlier Publisher's specification.                                  *)
(***************************************************************************)
NextLegacy ==
  \/ L_Send
  \/ L_Close
  \/ L_Connect
  \/ L_Recv
  \/ L_Publish

SpecLegacy == Init /\ [][NextLegacy]_vars

(***************************************************************************)
(* The earlier EventConsumer's specification.                              *)
(***************************************************************************)
NextLegacyConsumer ==
  \/ \E q \in Queues : LC_Consume(q)
  \/ \E q \in Queues : LC_Next(q)
  \/ \E q \in Queues : LC_Handle(q)
  \/ \E q \in Queues : LC_Shutdown(q)
  \/ \E q \in Queues : LC_Close(q)
  \/ LC_Sigterm
  \/ LC_ClosePool
  \/ LC_Return

SpecLegacyConsumer == Init /\ [][NextLegacyConsumer]_vars

(***************************************************************************)
(* The consumers with broker errors and the termination signal.            *)
(***************************************************************************)
\* A Created event whose location names an output the transaction does not
\* have ("t1" has one output).
OutOfRangeCreated ==
  [tag : {"InscriptionCreated"}, block_height : Heights,
   inscription_id : {"i1"}, location : {Some(SatPoint("t1", 1, 0))}]

\* What producers put on each queue in the runs with events of every kind:
\* on either queue also events of variants its consumer does not handle.
VariantPayloads(q) ==
  IF q = "inscriptions"
    THEN CreatedEvents \cup OutOfRangeCreated \cup RuneEvents
           \cup BlockEvents
    ELSE BlockEvents \cup RuneEvents
           \cup {e \in CreatedEvents : e.location = None}

\* The x-delivery-count header of such a message: on a BlockCommitted
\* absent, a long-long-int or a short-uint.
VariantHeaders(q, data) ==
  IF q = "blocks" /\ data \in BlockEvents
    THEN Headers \cup {[kind |-> "ShortUInt", n |-> MaxDelivery]}
    ELSE {Absent}

\* A producer publishes one of these messages.
ProduceVariants ==
  /\ Len(queue["blocks"].msgs) + Len(queue["inscriptions"].msgs) < MaxMsgs
  /\ \E q \in Queues : \E data \in VariantPayloads(q) :
       \E hdr \in VariantHeaders(q, data) :
         queue' = [queue EXCEPT
           ![q].msgs = Append(@, [data |-> data, hdr |-> hdr,
                                  redelivered |-> 0, state |-> "ready",
                                  answers |-> 0]),
           ![q].ready = Append(@, Len(queue[q].msgs) + 1)]
  /\ UNCHANGED <<nativeCount, ec, bc, dbVars, pubVars, proc, lc, clientVars>>

NextVariants ==
  \/ ProduceVariants
  \/ EC_Next
  \/ EC_Handle
  \/ EC_Respond
  \/ BC_Next
  \/ BC_Handle
  \/ BC_BlockInfo
  \/ BC_Event
  \/ BC_Respond

SpecVariants == Init /\ [][NextVariants]_vars

\* What producers put on each queue in the runs with a termination signal:
\* an event the consumer enriches or saves, or a poison message, without
\* x-delivery-count.
ShutdownPayloads(q) ==
  IF q = "inscriptions"
    THEN {e \in CreatedEvents : e.location # None} \cup {Garbage}
    ELSE BlockEvents \cup {Garbage}

\* Messages producers put on the two queues during such a run.
MaxShutdownMsgs == 2

\* A producer publishes one of these messages.
ProduceShutdown ==
  /\ Len(queue["blocks"].msgs) + Len(queue["inscriptions"].msgs)
       < MaxShutdownMsgs
  /\ \E q \in Queues : \E data \in ShutdownPayloads(q) :
       queue' = [queue EXCEPT
         ![q].msgs = Append(@, [data |-> data, hdr |-> Absent,
                                redelivered |-> 0, state |-> "ready",
                                answers |-> 0]),
         ![q].ready = Append(@, Len(queue[q].msgs) + 1)]
  /\ UNCHANGED <<nativeCount, ec, bc, dbVars, pubVars, proc, lc, clientVars>>

NextShutdown ==
  \/ ProduceShutdown
  \/ EC_Next
  \/ EC_Handle
  \/ EC_Respond
  \/ BC_Next
  \/ BC_Handle
  \/ BC_BlockInfo
  \/ BC_Event
  \/ BC_Respond
  \/ EC_Shutdown
  \/ EC_BrokerError
  \/ EC_Close
  \/ BC_Shutdown
  \/ BC_BrokerError
  \/ BC_Close
  \/ \E p \in Processes : Sigterm(p)
  \/ \E p \in Processes : Sup_ClosePool(p)

SpecShutdown == Init /\ [][NextShutdown]_vars

\* The runtime polls every ready task, so a step of a consumer or of run
\* that stays possible is eventually taken; select! picks the branch it
\* polls first at random, so the shutdown branch, possible again and again,
\* is eventually taken.  Signals, producers, broker errors and the outcomes
\* of calls are under no obligation.
FairShutdown ==
  /\ SpecShutdown
  /\ WF_vars(EC_Next) /\ WF_vars(EC_Handle) /\ WF_vars(EC_Respond)
  /\ WF_vars(EC_Close)
  /\ WF_vars(BC_Next) /\ WF_vars(BC_Handle) /\ WF_vars(BC_BlockInfo)
  /\ WF_vars(BC_Event) /\ WF_vars(BC_Respond) /\ WF_vars(BC_Close)
  /\ SF_vars(EC_Shutdown) /\ SF_vars(BC_Shutdown)
  /\ \A p \in Processes : WF_vars(Sup_ClosePool(p))

\* The tasks run on an async runtime that polls every ready task, and the
\* broker delivers what is ready: each step of a consumer that stays
\* possible is eventually taken.  Producers and the outcomes of database
\* and API calls are under no obligation.
FairSpec ==
  /\ Spec
  /\ WF_vars(EC_Next) /\ WF_vars(EC_Handle) /\ WF_vars(EC_Respond)
  /\ WF_vars(BC_Next) /\ WF_vars(BC_Handle) /\ WF_vars(BC_BlockInfo)
  /\ WF_vars(BC_Event) /\ WF_vars(BC_Respond)

(***************************************************************************)
(* Claims.                                                                 *)
(***************************************************************************)
Msgs(q) == queue[q].msgs

\* The row of relation event that save_event_created /
\* save_event_transferred writes for a wire event is present.
EventRowPresent(event) ==
  \E i \in 1..Len(events) :
    /\ events[i].block_height = event.block_height
    /\ events[i].inscription_id = event.inscription_id
    /\ IF event.tag = "InscriptionCreated"
         THEN /\ events[i].type_id = 1
              /\ events[i].location =
                   (IF event.location = None THEN None
                    ELSE Some(SatPointToString(event.location[1])))
         ELSE /\ events[i].type_id = 2
              /\ events[i].location = Some(SatPointToString(event.new_location))
              /\ events[i].old_location =
                   Some(SatPointToString(event.old_location))

\* C1: an InscriptionCreated or InscriptionTransferred delivery on the
\* inscriptions queue is acked only once its row is in relation event: no
\* reachable state holds such an acked delivery without a matching row.
C1_EventRowBeforeAck ==
  \A mid \in 1..Len(Msgs("inscriptions")) :
    LET m == Msgs("inscriptions")[mid]
    IN (m.state = "acked" /\ EC_handles(m.data)) => EventRowPresent(m.data)

\* C1 witness: a Created and a Transferred delivery have been acked.
C1_Witness ==
  /\ \E mid \in 1..Len(Msgs("inscriptions")) :
       /\ Msgs("inscriptions")[mid].state = "acked"
       /\ Msgs("inscriptions")[mid].data.tag = "InscriptionCreated"
  /\ \E mid \in 1..Len(Msgs("inscriptions")) :
       /\ Msgs("inscriptions")[mid].state = "acked"
       /\ Msgs("inscriptions")[mid].data.tag = "InscriptionTransferred"

\* C2: a poison message (a payload that is no Event) is rejected without
\* requeue by both consumers whatever its x-delivery-count: it is never
\* acked and never put back on the queue, and the step that handles it
\* writes no row and makes no API call.
C2_PoisonRejected ==
  /\ [](\A q \in Queues : \A mid \in 1..Len(Msgs(q)) :
          Msgs(q)[mid].data = Garbage =>
            /\ Msgs(q)[mid].state \in {"ready", "unacked", "rejected"}
            /\ Msgs(q)[mid].redelivered = 0)
  /\ [][(ec.pc = "handle" /\ ec' # ec
           /\ Msgs("inscriptions")[ec.mid].data = Garbage)
          => (ec'.result = "poison" /\ UNCHANGED dbVars)]_vars
  /\ [][(bc.pc = "handle" /\ bc' # bc
           /\ Msgs("blocks")[bc.mid].data = Garbage)
          => (bc'.pc = "respond" /\ bc'.result = "poison" /\ bc'.api = 0
              /\ UNCHANGED dbVars)]_vars
  /\ [][(bc.pc = "respond" /\ bc.result = "poison" /\ bc' # bc)
          => bc'.response = "reject"]_vars

\* C2 witness: each consumer has rejected a poison message, one of them
\* below the redelivery threshold and one at it.
C2_Witness ==
  /\ \E mid \in 1..Len(Msgs("blocks")) :
       /\ Msgs("blocks")[mid].data = Garbage
       /\ Msgs("blocks")[mid].hdr = Absent
       /\ Msgs("blocks")[mid].state = "rejected"
  /\ \E mid \in 1..Len(Msgs("inscriptions")) :
       /\ Msgs("inscriptions")[mid].data = Garbage
       /\ Msgs("inscriptions")[mid].hdr.n = MaxDelivery
       /\ Msgs("inscriptions")[mid].state = "rejected"

\* The enrichment of event ev of sync_blocks is in the database: its
\* inscription row, and a location row of that inscription for the event's
\* height and outputs.
Enriched(ev) ==
  \E i \in 1..Len(inscription) :
    /\ inscription[i].genesis_id = ev.inscription_id
    /\ \E j \in 1..Len(location) :
         /\ location[j].inscription_id = i
         /\ location[j].block_height = ev.block_height
         /\ location[j].cur_output = OutpointOf(ev.location)
         /\ location[j].prev_output = OutpointOf(ev.old_location)

\* C3: whenever BlockConsumer acks a BlockCommitted(h) delivery, every event
\* row read by that sync_blocks(h) run has its enrichment written (its
\* inscription row and its location row), and none of them failed.
C3_AckImpliesEnriched ==
  (bc.response = "ack" /\ bc.tag = "BlockCommitted") =>
    /\ bc.failed = {}
    /\ \A i \in 1..Len(bc.events) : Enriched(bc.events[i])

\* C4: a BlockCommitted message that starts with x-delivery-count absent or
\* 0 is put back on the queue at most max_delivery = 3 times, and when it is
\* rejected (its handler failed on every delivery) it has been put back
\* exactly 3 times.
C4_RequeuedExactlyMaxDelivery ==
  \A mid \in 1..Len(Msgs("blocks")) :
    LET m == Msgs("blocks")[mid]
    IN (m.data.tag = "BlockCommitted" /\ m.hdr.n = 0) =>
         /\ m.redelivered <= MaxDelivery
         /\ m.state = "rejected" => m.redelivered = MaxDelivery

\* C5: when EventConsumer rejects a delivery whose event deserialized
\* (process_event failed) and whose delivery count is below max_delivery,
\* the message has been republished to the inscriptions queue with
\* x-delivery-count one higher.
C5_RepublishedBeforeReject ==
  \A mid \in 1..Len(Msgs("inscriptions")) :
    LET m == Msgs("inscriptions")[mid]
    IN (m.state = "rejected" /\ Deserialize(m.data).ok
          /\ m.hdr.n < MaxDelivery) =>
         \E k \in 1..Len(Msgs("inscriptions")) :
           /\ Msgs("inscriptions")[k].data = m.data
           /\ Msgs("inscriptions")[k].hdr.kind # "absent"
           /\ Msgs("inscriptions")[k].hdr.n = m.hdr.n + 1

\* C6: the redelivery cycle of a message ends: under fair scheduling every
\* message a queue holds is eventually acked or rejected without requeue,
\* also when its handler fails on every delivery.
C6_RedeliveryTerminates ==
  \A q \in Queues : \A mid \in 1..MaxMsgs :
    (Len(Msgs(q)) >= mid) ~>
      (Len(Msgs(q)) >= mid /\ Msgs(q)[mid].state \in {"acked", "rejected"})

\* 2^n.
RECURSIVE Pow2(_)
Pow2(n) == IF n = 0 THEN 1 ELSE 2 * Pow2(n - 1)

\* C7: for one event the Publisher makes at most 8 publish attempts (no 9th
\* after 8 consecutive failures), and the backoff before retry k is
\* 2^(k-1) seconds.
C7_AtMostEightAttempts ==
  /\ pub.attempts <= 8
  /\ \A k \in 1..Len(pub.slept) : pub.slept[k] = Pow2(k - 1)

\* C8: no event taken from the Publisher's queue is silently lost: every
\* received event but the last was acked by the broker, and the last one
\* was acked, is still being published, or ended in the fatal error that
\* shuts the process down.
C8_NoSilentLoss ==
  \A i \in 1..Len(dequeued) :
    \/ i <= Len(confirmed) /\ confirmed[i] = dequeued[i]
    \/ /\ i = Len(dequeued)
       /\ \/ pub.pc \in {"publish", "connect", "qos"}
          \/ pub.pc = "fatal" /\ shutdown

\* C9: in the retry loop a failed re-establishment of the channel
\* (connection setup or QoS setup) never raises the fatal error, and the
\* next publish attempt runs on the channel held before.
C9_ReconnectFailureKeepsChannel ==
  /\ ~(pub.pc = "fatal" /\ pub.cause = "reconnect")
  /\ (pub.pc = "publish" /\ pub.reconn = "qos_failed")
       => pub.channel = pub.prev

C11_RoutingKeyIsVariantName ==
  [][(pub.pc = "publish" /\ pub'.attempts = pub.attempts + 1)
       => /\ pub'.wire.routing_key = pub.event.tag
          /\ pub'.wire.message = <<"json", pub.event.tag, pub.event.n>>]_vars

\* C11 witness: a retry (third attempt) of a RuneEtched event went out.
C11_Witness ==
  /\ pub.event.tag = "RuneEtched"
  /\ pub.attempts = 3
  /\ pub.wire.routing_key = "RuneEtched"

C13_SignalLeadsToExit ==
  \A p \in Processes :
    proc[p].signal ~> (Consumer(p).pc \in {"done", "failed"})

\* C14: run closes the database pool only after every consumer task it
\* spawned has ended, and no consumer makes a database call on the closed
\* pool: for EventConsumer, for BlockConsumer and for the earlier
\* EventConsumer with its two tasks.
C14_PoolClosedAfterConsumers ==
  /\ \A p \in Processes :
       ~proc[p].pool_open => Consumer(p).pc \in {"done", "failed"}
  /\ ~lc.pool_open =>
       \A q \in Queues : /\ lc.task[q].pc \in {"done", "failed", "panicked"}
                         /\ lc.task[q].db_closed = 0

\* C15: when an ack, reject or nack fails with a broker error, or the
\* delivery stream yields an error, the consumer's loop has ended and its
\* process has exited with code 1, without a termination signal being
\* needed; for both consumers.
C15_BrokerErrorExitsWithOne ==
  \A p \in Processes :
    (Consumer(p).pc = "failed" /\ Consumer(p).fail \in {"stream", "respond"})
      => proc[p].exit = 1

\* The deliveries of queue q that are taken and not answered.
Unacked(q) == {mid \in 1..Len(Msgs(q)) : Msgs(q)[mid].state = "unacked"}

\* C16: each consumer handles one delivery at a time, in delivery order:
\* the only unanswered delivery of a queue is the one its consumer is
\* handling, the next delivery is the head of the queue and is taken only
\* when the one before got its ack, reject or nack, and every answer is for
\* the delivery received last.
C16_OneDeliveryAtATime ==
  /\ [](\A p \in Processes :
          Unacked(QueueOf(p)) =
            (IF Consumer(p).pc = "next" THEN {} ELSE {Consumer(p).mid}))
  /\ [][\A p \in Processes : \A mid \in 1..Len(Msgs(QueueOf(p))) :
          LET q == QueueOf(p)
          IN /\ (Msgs(q)[mid].state = "unacked" /\ queue'[q].msgs[mid].state # "unacked")
                  => mid = Consumer(p).mid
             /\ (Msgs(q)[mid].state # "unacked" /\ queue'[q].msgs[mid].state = "unacked")
                  => /\ mid = Head(queue[q].ready)
                     /\ Unacked(q) = {}]_vars

\* C16 witness: the third delivery of the inscriptions queue is being
\* handled after the first two were answered, one of them rejected.
C16_Witness ==
  /\ Len(Msgs("inscriptions")) = 3
  /\ Msgs("inscriptions")[1].state = "rejected"
  /\ Msgs("inscriptions")[2].state = "acked"
  /\ Msgs("inscriptions")[3].state = "unacked"
  /\ ec.mid = 3

\* Event i of the sync_blocks run in progress has been processed.
Processed(i) == i < bc.idx \/ (i = bc.idx /\ bc.pc = "respond")

\* C17: a Transferred event whose genesis_id has no inscription row is not
\* failed or skipped by sync_blocks: when no database or API call fails,
\* its inscription row is inserted and its location row, with the from and
\* the to side, is appended.
C17_TransferRecoversMissingInscription ==
  \A i \in 1..Len(bc.events) :
    (bc.events[i].type_id = 2 /\ Processed(i) /\ i \notin bc.injected)
      => /\ i \notin bc.failed
         /\ Enriched(bc.events[i])

\* C18: in every reachable state every location row's inscription_id is the
\* surrogate id of an existing inscription row, and every location row that
\* sync_blocks appends carries the id that the inscription relation holds
\* for the genesis_id of the event being processed.
C18_LocationReferencesInscription ==
  /\ [](\A j \in 1..Len(location) :
          location[j].inscription_id \in 1..Len(inscription))
  /\ [][\A j \in (Len(location) + 1)..Len(location') :
          /\ bc.pc = "events"
          /\ Some(location'[j].inscription_id) =
               fetch_inscription_id_by_genesis_id(
                 inscription', bc.events[bc.idx].inscription_id)]_vars

\* A location row written for a creation and one written for a transfer.
C18_Witness ==
  \E j, k \in 1..Len(location) :
    /\ location[j].prev_output = None
    /\ location[k].prev_output # None
    /\ location[j].inscription_id \in 1..Len(inscription)
    /\ location[k].inscription_id \in 1..Len(inscription)

\* The event list evs is the rows of height h of the event relation, each
\* once, by ascending type_id and, within a type, by ascending row id.
OrderedByTypeThenId(evs, h) ==
  \E f \in [1..Len(evs) -> 1..Len(events)] :
    /\ \A i \in 1..Len(evs) : evs[i] = from_row(events[f[i]])
    /\ \A r \in 1..Len(events) :
         events[r].block_height = h <=> \E i \in 1..Len(evs) : f[i] = r
    /\ \A i, j \in 1..Len(evs) :
         i < j => \/ events[f[i]].type_id < events[f[j]].type_id
                  \/ /\ events[f[i]].type_id = events[f[j]].type_id
                     /\ f[i] < f[j]

\* C19: whatever the order in which rows of mixed types were inserted at
\* height h, fetch_events_by_block_height(h) returns every type_id = 1 row
\* before any type_id = 2 row and rows of one type in id order, and
\* sync_blocks(h) has processed every creation of the block before it
\* processes a transfer of the block.
C19_CreationsBeforeTransfers ==
  /\ [](\A i, j \in 1..Len(bc.events) :
          (bc.events[i].type_id = 1 /\ bc.events[j].type_id = 2
             /\ Processed(j)) => Processed(i))
  /\ [][(bc.pc = "handle" /\ bc'.events # <<>>)
          => OrderedByTypeThenId(bc'.events, bc'.h)]_vars

\* sync_blocks has processed a creation and then a transfer of a block
\* whose transfer row was inserted before its creation row.
C19_Witness ==
  /\ bc.pc = "respond"
  /\ Len(bc.events) = 2
  /\ bc.events[1].type_id = 1 /\ bc.events[2].type_id = 2
  /\ Processed(2)
  /\ \E r, t \in 1..Len(events) :
       r < t /\ events[r].type_id = 2 /\ events[t].type_id = 1

\* C20: for every key (type, block_height, inscription_id, location and,
\* for a transfer, old_location), a Created event with no location
\* included, the event relation holds at most one row, however many times
\* the key was saved.
C20_OneEventRowPerKey ==
  \A i, j \in 1..Len(events) : events[i] = events[j] => i = j

\* C21: for every location tuple, tuples with null components included
\* (the from side of a creation, an address that was not resolved), the
\* location relation holds at most one row, however many times save_location
\* was called with the tuple.
C21_OneLocationRowPerTuple ==
  \A i, j \in 1..Len(location) : location[i] = location[j] => i = j

\* C22: processing BlockCommitted(h) again, with the event rows and the API
\* answers unchanged, adds no row: a turn of sync_blocks over an event whose
\* inscription row exists leaves the number of inscription rows unchanged,
\* and no turn appends a location row equal to one that an earlier
\* processing of the block has stored.  (The event rows are pairwise
\* distinct, so that an equal row can only come from an earlier processing.)
C22_ReplayAddsNoRows ==
  [][(bc.pc = "events"
        /\ \A i, j \in 1..Len(events) : events[i] = events[j] => i = j)
       => /\ (\E i \in 1..Len(inscription) :
                 inscription[i].genesis_id = bc.events[bc.idx].inscription_id)
               => Len(inscription') = Len(inscription)
          /\ \A j \in (Len(location) + 1)..Len(location') :
               \A i \in 1..Len(location) : location[i] # location'[j]]_vars

\* The nullable columns of an inscription row that the model carries.
NullableFields == {"content_type", "content_length"}

\* C23: no save_inscription replaces a non-null value of a nullable column
\* of the stored row by null: after every step each such column that held
\* a value still holds one, and holds the earlier value when the call
\* supplied null.
C23_UpsertNeverErases ==
  [][\A i \in 1..Len(inscription) : \A f \in NullableFields :
       inscription[i][f] # None => inscription'[i][f] # None]_vars

NextUpsert == \E c \in Callers : SI_Call(c)

SpecUpsert == Init /\ [][NextUpsert]_vars

\* C24: in every reachable state the inscription relation holds at most one
\* row per genesis_id and all callers of save_inscription hold the same
\* surrogate id for a genesis_id, in every interleaving of their calls; the
\* id of a row and the id a caller holds never change.
C24_UpsertsConverge ==
  /\ [](\A i, j \in 1..Len(inscription) :
          inscription[i].genesis_id = inscription[j].genesis_id => i = j)
  /\ [](\A c, d \in Callers : \A g \in GenesisIds :
          (callers[c].returned[g] # 0 /\ callers[d].returned[g] # 0)
            => callers[c].returned[g] = callers[d].returned[g])
  /\ [][/\ \A i \in 1..Len(inscription) :
             inscription'[i].genesis_id = inscription[i].genesis_id
        /\ \A c \in Callers : \A g \in GenesisIds :
             callers[c].returned[g] # 0
               => callers'[c].returned[g] = callers[c].returned[g]]_vars

\* Both callers have saved both genesis ids, each more than once.
C24_Witness ==
  /\ Len(inscription) = 2
  /\ \A c \in Callers : \A g \in GenesisIds : callers[c].returned[g] # 0
  /\ \A c \in Callers : callers[c].calls = MaxCalls

NextApi == AC_Call \/ AC_Send \/ AC_Sleep \/ AC_Exhausted

SpecApi == Init /\ [][NextApi]_vars

\* C25: a request answered with an HTTP 4xx status other than 429 is the
\* last request of the operation, which returns the error at once, with no
\* backoff sleep after it.
C25_ClientErrorNotRetried ==
  \A i \in 1..Len(apiCall.sent) :
    (is_client_error(apiCall.sent[i]) /\ apiCall.sent[i] # 429)
      => /\ i = Len(apiCall.sent)
         /\ apiCall.pc = "returned"
         /\ Len(apiCall.slept) < i

\* The outcomes the retry policy is stated for: a transport error, a 5xx
\* status, 429, and success.
TransientOrSuccess(status) ==
  status = NoResponse \/ is_server_error(status) \/ status = 429
    \/ status = 200

\* C26: for every sequence of transport errors, 5xx, 429 and successes, an
\* operation sends at most 3 requests; a successful response is the last
\* request and its result is returned; and the exhaustion error, carrying
\* the last error and the attempted URL, is returned exactly when the first
\* 3 requests all failed.
C26_AtMostThreeRequests ==
  LET sent == apiCall.sent
      n == Len(sent)
  IN (\A i \in 1..n : TransientOrSuccess(sent[i])) =>
       /\ n <= 3
       /\ \A i \in 1..n :
            sent[i] = 200 => /\ i = n
                             /\ apiCall.pc = "returned"
                             /\ apiCall.result.kind \in {"ok", "decode"}
       /\ apiCall.result.kind = "exhausted"
            <=> /\ apiCall.pc = "returned"
                /\ n = 3
                /\ \A i \in 1..3 : sent[i] # 200
       /\ apiCall.result.kind = "exhausted"
            => /\ apiCall.result.last_error = Some(sent[3])
               /\ apiCall.result.url = apiCall.url
               /\ apiCall.url \in ApiEndpoints

\* 503, 503, 200: the operation succeeded with exactly three requests.
C26_Witness ==
  /\ apiCall.sent = <<503, 503, 200>>
  /\ apiCall.pc = "returned"
  /\ apiCall.result.kind = "ok"

\* Three transient failures ended in the exhaustion error.
C26_WitnessExhausted ==
  /\ apiCall.sent = <<NoResponse, 429, 503>>
  /\ apiCall.result.kind = "exhausted"

\* C27: setup_rabbitmq_connection makes at most 10 attempts, waits 1s, 2s,
\* 4s, .. between consecutive attempts, returns the channel of the first
\* attempt that succeeds, and when the 10th attempt has failed returns the
\* connect error without a further backoff wait.
C27_TenAttemptsNoFinalWait ==
  LET c == pub.conn
      failed == ConnectAttempts - c.attempts
  IN /\ failed <= 10
     /\ \A i \in 1..Len(c.slept) : c.slept[i] = Pow2(i - 1)
     /\ c.status \in {"running", "ok"} => Len(c.slept) = failed
     /\ c.status \notin {"running", "ok"}
          => /\ failed = 10
             /\ Len(c.slept) = 9
             /\ c.status = "err"

NextChannel ==
  \E h \in Holders :
    Ch_Setup(h) \/ Ch_Enqueue(h) \/ Ch_Push(h) \/ Ch_Answer(h)

SpecChannel == Init /\ [][NextChannel]_vars

\* C28: every channel handed to BlockConsumer, EventConsumer or the
\* Publisher is in confirm mode with a prefetch count of 2, and a consumer
\* never has more than two unacknowledged deliveries outstanding.
C28_ConfirmModePrefetchTwo ==
  /\ \A h \in Holders :
       chan[h].pc = "handed" => (chan[h].confirm /\ chan[h].prefetch = 2)
  /\ \A h \in ChannelConsumers : chan[h].unacked <= 2

\* Relation r2 is relation r1 with rows appended: no row of r1 was changed
\* or removed.
Extends(r2, r1) ==
  /\ Len(r2) >= Len(r1)
  /\ \A i \in 1..Len(r1) : r2[i] = r1[i]

\* C29: the event relation only grows and only EventConsumer's handling of
\* a delivery inserts into it (no step of BlockConsumer or of sync_blocks
\* does); location rows, once appended, are never changed or removed.
C29_EventsOnlyGrow ==
  [][/\ Extends(events', events)
     /\ events' # events => (ec.pc = "handle" /\ bc' = bc)
     /\ Extends(location', location)]_vars

\* Event rows of both types were inserted and sync_blocks has processed
\* them, writing a location row for each.
C29_Witness ==
  /\ Len(events) = 2
  /\ Len(location) = 2
  /\ bc.pc = "respond"
  /\ \E i, j \in 1..Len(events) :
       events[i].type_id = 1 /\ events[j].type_id = 2

\* C30: when fetch_events_by_block_height(h) returns no rows, sync_blocks(h)
\* returns success with no ApiClient request made and no inscription or
\* location row written, and the BlockCommitted(h) delivery is acked.
C30_EmptyBlockIsAcked ==
  /\ [][(bc.pc = "handle" /\ bc'.tag = "BlockCommitted"
           /\ bc'.result # "err"
           /\ fetch_events_by_block_height(events, bc'.h) = <<>>)
          => /\ bc'.pc = "respond"
             /\ bc'.result = "ok"
             /\ bc'.api = 0
             /\ UNCHANGED dbVars]_vars
  /\ [][(bc.pc = "respond" /\ bc' # bc /\ bc.tag = "BlockCommitted"
           /\ bc.result = "ok" /\ bc.events = <<>>)
          => /\ bc.api = 0
             /\ bc'.response = "ack"
             /\ queue'["blocks"].msgs[bc.mid].state = "acked"
             /\ UNCHANGED dbVars]_vars

\* A BlockCommitted delivery for a height without event rows was acked.
C30_Witness ==
  /\ bc.tag = "BlockCommitted"
  /\ bc.events = <<>>
  /\ bc.response = "ack"
  /\ bc.api = 0
  /\ queue["blocks"].msgs[bc.mid].state = "acked"
  /\ fetch_events_by_block_height(events, bc.h) = <<>>

\* The payload of message mid of queue q is an event of a variant outside
\* the set handled.
Unhandled(q, mid, handled) ==
  LET d == Deserialize(Msgs(q)[mid].data)
  IN d.ok /\ d.event.tag \notin handled

\* C31: a deserialized event of a variant the consumer does not handle is
\* acked with no database write and no API call: for EventConsumer every
\* variant but InscriptionCreated and InscriptionTransferred, for
\* BlockConsumer every variant but BlockCommitted.
C31_UnhandledVariantAcked ==
  /\ [][(ec' # ec /\ ec.pc \in {"handle", "respond"}
           /\ Unhandled("inscriptions", ec.mid,
                        {"InscriptionCreated", "InscriptionTransferred"}))
          => /\ UNCHANGED dbVars
             /\ ec.pc = "handle" => ec'.result = "ok"
             /\ ec.pc = "respond"
                  => queue'["inscriptions"].msgs[ec.mid].state = "acked"]_vars
  /\ [][(bc' # bc /\ bc.pc \in {"handle", "respond"}
           /\ Unhandled("blocks", bc.mid, {"BlockCommitted"}))
          => /\ UNCHANGED dbVars
             /\ bc'.api = 0
             /\ bc.pc = "handle" => (bc'.pc = "respond" /\ bc'.result = "ok")
             /\ bc.pc = "respond"
                  => queue'["blocks"].msgs[bc.mid].state = "acked"]_vars

\* EventConsumer has acked a BlockCommitted event and BlockConsumer an
\* InscriptionCreated event.
C31_Witness ==
  /\ \E mid \in 1..Len(Msgs("inscriptions")) :
       /\ Msgs("inscriptions")[mid].data.tag = "BlockCommitted"
       /\ Msgs("inscriptions")[mid].state = "acked"
  /\ \E mid \in 1..Len(Msgs("blocks")) :
       /\ Msgs("blocks")[mid].data.tag = "InscriptionCreated"
       /\ Msgs("blocks")[mid].state = "acked"

\* C32: the delivery count BlockConsumer uses for the redelivery-cap
\* decision is the value of the delivery's x-delivery-count header whenever
\* the header is present, as an AMQP short-uint included, and is 0 only
\* when the header is absent.
C32_CountIsHeaderValue ==
  (bc.pc = "respond" /\ bc.mid \in 1..Len(Msgs("blocks")))
    => LET hdr == DeliveredHeader(Msgs("blocks")[bc.mid])
       IN /\ hdr.kind # "absent" => bc.delivery_count = hdr.n
          /\ bc.delivery_count = 0 => (hdr.kind = "absent" \/ hdr.n = 0)

\* The transaction of a sat point has an output at the sat point's vout.
HasOutput(txid, vout) == vout + 1 <= Len(TxOutputs(txid))

\* C33: resolving a location whose vout is not an index of the fetched
\* transaction's outputs fails, so the event's processing fails: the event
\* is among the failed ones and no location row is written for an outpoint
\* that has no output.
C33_MissingOutputFails ==
  /\ \A i \in 1..Len(bc.events) :
       LET loc == bc.events[i].location
       IN (Processed(i) /\ loc # None
             /\ ~HasOutput(loc[1].txid, loc[1].vout))
            => i \in bc.failed
  /\ \A j \in 1..Len(location) :
       location[j].cur_output # None
         => HasOutput(location[j].cur_output[1][1],
                      location[j].cur_output[1][2])

\* C34: when the selected output exists and has no address (a non-standard
\* script), the location row written has a null to_address and the
\* output's value.
C34_ValueWithoutAddress ==
  \A j \in 1..Len(location) :
    LET out == location[j].cur_output
    IN (out # None /\ HasOutput(out[1][1], out[1][2])
          /\ TxOutputs(out[1][1])[out[1][2] + 1].address = None)
         => /\ location[j].to_address = None
            /\ location[j].value
                 = Some(TxOutputs(out[1][1])[out[1][2] + 1].value)

\* C35: the two consumer tasks of one run each work on a channel of their
\* own: no task sends an ack or a reject, or closes, on a channel that the
\* other task has closed.
C35_OwnChannelPerConsumer ==
  \A q \in Queues : lc.task[q].on_closed = 0

\* A message that was handed to a consumer at least once.
Taken(m) == m.state # "ready" \/ m.redelivered > 0

\* The consumer of p left its loop by the shutdown branch of select!.
LeftByShutdown(p) ==
  \/ Consumer(p).pc \in {"closing", "done"}
  \/ Consumer(p).pc = "failed" /\ Consumer(p).fail = "close"

\* The consumer of p left its loop because the acknowledgement operation of
\* the delivery in hand returned a broker error.
LeftByAnswerError(p) ==
  Consumer(p).pc = "failed" /\ Consumer(p).fail = "respond"

\* The delivery of message mid to the consumer of p is over and ended as
\* acked, rejected, requeued, or unacknowledged for one of the reasons given.
Outcome(p, mid, reasons) ==
  LET m == Msgs(QueueOf(p))[mid]
  IN (Taken(m) /\ InHand(p) # mid) =>
       \/ m.state \in {"acked", "rejected"} /\ m.answers = 1
       \/ m.state = "ready" /\ m.redelivered > 0 /\ m.answers = 1
       \/ /\ m.state = "unacked"
          /\ m.answers = 0
          /\ Consumer(p).mid = mid
          /\ \E r \in reasons :
               \/ r = "shutdown" /\ LeftByShutdown(p)
               \/ r = "answer_error" /\ LeftByAnswerError(p)

\* C36 as stated: every delivery a consumer has taken and is done with is
\* acked, rejected without requeue, nacked with requeue, or left
\* unacknowledged because the shutdown branch won; no delivery receives two
\* acknowledgement operations.
C36_FourOutcomes ==
  \A p \in Processes : \A mid \in 1..Len(Msgs(QueueOf(p))) :
    /\ Msgs(QueueOf(p))[mid].answers <= 1
    /\ Outcome(p, mid, {"shutdown"})

\* C36 as amended: every delivery a consumer has taken and is done with is
\* acked, rejected without requeue, nacked with requeue, or left
\* unacknowledged either because the shutdown branch won or because the
\* acknowledgement operation failed with a broker error and ended the
\* consumer; no delivery receives two acknowledgement operations, and an
\* acknowledgement operation is only sent by the answering step of the
\* delivery in hand.
C36_OutcomesWithBrokerError ==
  /\ [](\A p \in Processes : \A mid \in 1..Len(Msgs(QueueOf(p))) :
          /\ Msgs(QueueOf(p))[mid].answers <= 1
          /\ Outcome(p, mid, {"shutdown", "answer_error"}))
  /\ [][\A p \in Processes : \A mid \in 1..Len(Msgs(QueueOf(p))) :
          Msgs(QueueOf(p))'[mid].answers > Msgs(QueueOf(p))[mid].answers
            => Consumer(p).pc = "respond" /\ Consumer(p).mid = mid]_vars

\* C36 witness: the block consumer lost a delivery, unacknowledged, to a
\* broker error on its acknowledgement, while the event consumer abandoned
\* a delivery by the shutdown branch.
C36_Witness ==
  /\ LeftByAnswerError("bc")
  /\ Msgs("blocks")[bc.mid].state = "unacked"
  /\ Msgs("blocks")[bc.mid].answers = 0
  /\ LeftByShutdown("ec")
  /\ Msgs("inscriptions")[ec.mid].state = "unacked"

\* C37: once fetch_events_by_block_height and fetch_block_info have
\* succeeded, every turn of the loop of sync_blocks, failed or not, is
\* followed by the turn for the next event of the block, the last turn by
\* the return of Ok(()), and the run ends with every event processed.
C37_EventFailureDoesNotStopRun ==
  /\ []((bc.pc = "respond" /\ bc.idx >= 1)
          => /\ bc.result = "ok"
             /\ bc.idx = Len(bc.events)
             /\ \A i \in 1..Len(bc.events) : Processed(i))
  /\ [][(bc.pc = "events" /\ bc' # bc)
          => IF bc.idx < Len(bc.events)
               THEN /\ bc'.pc = "events"
                    /\ bc'.idx = bc.idx + 1
                    /\ bc'.events = bc.events
               ELSE /\ bc'.pc = "respond"
                    /\ bc'.result = "ok"]_vars

\* C37 witness: the first event of a block of two failed, the second was
\* processed without error after it, and sync_blocks returned Ok(()).
C37_Witness ==
  /\ bc.pc = "respond"
  /\ bc.result = "ok"
  /\ Len(bc.events) = 2
  /\ bc.failed = {1}
  /\ Enriched(bc.events[2])

\* The inscription relation insc after the upsert of the details of event
\* ev: for some answer of the API, save_inscription applied to the relation
\* before.
Upserted(before, insc, ev) ==
  \E dv \in DetailVariants :
    insc = save_inscription(before, InscriptionDetails(ev.inscription_id, dv))

\* The last row of locs is the location row of Created event ev: it refers
\* to the inscription row of the event's genesis id in insc, carries the
\* event's to-side, and its from-side fields are null.
CreatedRowAppended(before, locs, insc, ev) ==
  /\ Len(locs) = Len(before) + 1
  /\ SubSeq(locs, 1, Len(before)) = before
  /\ LET row == locs[Len(locs)]
     IN /\ fetch_inscription_id_by_genesis_id(insc, ev.inscription_id)
             = Some(row.inscription_id)
        /\ row.block_height = ev.block_height
        /\ row.cur_output = OutpointOf(ev.location)
        /\ row.cur_offset = OffsetOf(ev.location)
        /\ row.from_address = None
        /\ row.prev_output = None
        /\ row.prev_offset = None

\* C38: for the Created event at hand in sync_blocks, whichever call of
\* process_inscription_created fails: a failed details fetch writes nothing;
\* a failure of the resolution of the to-location or of save_location
\* leaves the upserted inscription row and appends no location row; with no
\* failure the inscription is upserted and one location row with null
\* from-side fields is appended after it.  The turn of the loop writes
\* exactly that.
C38_CreatedWritesInOrder ==
  /\ [](bc.pc = "events" /\ bc.events[bc.idx].type_id = 1 =>
          LET ev == bc.events[bc.idx]
          IN \A failAt \in CreatedFailPoints(ev), dv \in DetailVariants :
               LET r == process_inscription_created(
                          ev, bc.block_time, inscription, location, failAt, dv)
               IN /\ failAt = "details" =>
                       /\ ~r.ok
                       /\ r.inscription = inscription
                       /\ r.location = location
                  /\ failAt \in {"fetch_tx_to", "save_location"} =>
                       /\ ~r.ok
                       /\ Upserted(inscription, r.inscription, ev)
                       /\ r.location = location
                  /\ failAt = "none" =>
                       /\ r.ok
                       /\ Upserted(inscription, r.inscription, ev)
                       /\ CreatedRowAppended(location, r.location,
                                             r.inscription, ev))
  /\ [][(bc.pc = "events" /\ bc' # bc /\ bc.events[bc.idx].type_id = 1) =>
          LET ev == bc.events[bc.idx]
          IN IF bc.idx \in bc'.failed
               THEN /\ location' = location
                    /\ inscription' = inscription
                         \/ Upserted(inscription, inscription', ev)
               ELSE /\ Upserted(inscription, inscription', ev)
                    /\ CreatedRowAppended(location, location',
                                          inscription', ev)]_vars

\* C38 witness: the turn for a Created event has failed after its upsert:
\* the inscription row of the event is in place and no location row refers
\* to it.
C38_Witness ==
  /\ bc.pc = "respond"
  /\ Len(bc.events) = 1
  /\ bc.events[1].type_id = 1
  /\ bc.failed = {1}
  /\ \E i \in 1..Len(inscription) :
       /\ inscription[i].genesis_id = bc.events[1].inscription_id
       /\ \A j \in 1..Len(location) : location[j].inscription_id # i


====
